---- MODULE Spec2Model ----
(***************************************************************************)
(* Retrieval & indexing engine of ragops: the index store (SQLite and      *)
(* Postgres backends), the ingestion pipeline, vector search and the       *)
(* reranker.  Texts are sequences of one-character strings so that         *)
(* normalisation, chunking and substring tests are computed, not assumed.  *)
(***************************************************************************)
EXTENDS Integers, Sequences, FiniteSets, TLC

\* ------------------------------------------------------------------------
\* Bounds of the model
\* ------------------------------------------------------------------------
MaxDocId == 2

MaxRows == 3

MaxTopK == 2

MaxCand == 3

\* ------------------------------------------------------------------------
\* Generic helpers
\* ------------------------------------------------------------------------
NoId == 0

NoDim == 0

\* F applied to the value of v, v being evaluated once
With(v, F(_)) == CHOOSE r \in {F(x) : x \in {v}} : TRUE

Max2(a, b) == IF a >= b THEN a ELSE b

Min2(a, b) == IF a <= b THEN a ELSE b

Range(s) == {s[i] : i \in 1..Len(s)}

\* Python slice text[a:b] with 0-based half-open bounds
Slice(s, a, b) == IF b <= a THEN <<>> ELSE SubSeq(s, a + 1, b)

\* Python "sub in text"
Contains(s, sub) ==
    \/ sub = <<>>
    \/ \E i \in 0..(Len(s) - Len(sub)) :
          s[i + 1] = sub[1] /\ Slice(s, i, i + Len(sub)) = sub

\* Python text.endswith(sub)
EndsWith(s, sub) ==
    /\ Len(sub) <= Len(s)
    /\ Slice(s, Len(s) - Len(sub), Len(s)) = sub

\* Python text.rfind(sub, a, b): highest 0-based index in text[a:b], else -1
Rfind(s, sub, a, b) ==
    LET hits == {i \in a..(b - Len(sub)) : Slice(s, i, i + Len(sub)) = sub}
    IN IF hits = {} THEN -1 ELSE CHOOSE i \in hits : \A j \in hits : j <= i

\* Python text.count("\n")
CountNewlines(s) == Cardinality({i \in 1..Len(s) : s[i] = "\n"})

Whitespace == {" ", "\t", "\n", "\r", "\f"}

RECURSIVE LStrip(_)
LStrip(s) ==
    IF s = <<>> THEN <<>>
    ELSE IF Head(s) \in Whitespace THEN LStrip(Tail(s)) ELSE s

RECURSIVE RStrip(_)
RStrip(s) ==
    IF s = <<>> THEN <<>>
    ELSE IF s[Len(s)] \in Whitespace THEN RStrip(SubSeq(s, 1, Len(s) - 1)) ELSE s

\* Python text.strip()
Strip(s) == RStrip(LStrip(s))

\* ------------------------------------------------------------------------
\* Normalizer / chunker (services/ingest/app/chunker.py)
\* ------------------------------------------------------------------------
\* text.replace("\r\n", "\n").replace("\r", "\n")
RECURSIVE ReplaceCrLf(_)
ReplaceCrLf(s) ==
    IF s = <<>> THEN <<>>
    ELSE IF Len(s) >= 2 /\ s[1] = "\r" /\ s[2] = "\n"
         THEN <<"\n">> \o ReplaceCrLf(SubSeq(s, 3, Len(s)))
    ELSE IF s[1] = "\r" THEN <<"\n">> \o ReplaceCrLf(Tail(s))
    ELSE <<s[1]>> \o ReplaceCrLf(Tail(s))

\* characters outside [\x09\x0a\x20-\x7e\x80-\xff] that the model uses
ControlChars == {"\f", "\r"}

StripControl(s) == SelectSeq(s, LAMBDA c : c \notin ControlChars)

\* re.sub(r"\n{3,}", "\n\n", text): a run of 3+ newlines becomes two
RECURSIVE CollapseBlank(_, _)
CollapseBlank(s, run) ==
    IF s = <<>> THEN <<>>
    ELSE IF Head(s) = "\n"
         THEN IF run >= 2 THEN CollapseBlank(Tail(s), run + 1)
              ELSE <<"\n">> \o CollapseBlank(Tail(s), run + 1)
    ELSE <<Head(s)>> \o CollapseBlank(Tail(s), 0)

normalize_text(text) == Strip(CollapseBlank(StripControl(ReplaceCrLf(text)), 0))

estimate_tokens(text) == Max2(1, Len(text) \div 4)

\* end of the window that starts at pos: the break-point search of the loop
ChunkEnd(text, pos, char_size) ==
    LET text_len == Len(text)
        end0 == Min2(pos + char_size, text_len)
        lo == pos + (char_size \div 2)
        para == Rfind(text, <<"\n", "\n">>, lo, end0)
        sent == Rfind(text, <<".", " ">>, lo, end0)
        line == Rfind(text, <<"\n">>, lo, end0)
    IN IF end0 < text_len
       THEN IF para # -1 THEN para + 1
            ELSE IF sent # -1 THEN sent + 2
            ELSE IF line # -1 THEN line + 1
            ELSE end0
       ELSE end0

\* the cursor after a window that did not reach the end of the text
NextPos_unclamped(pos, end_pos, char_overlap) == pos + (end_pos - pos - char_overlap)

NextPos(pos, end_pos, char_overlap) == pos + Max2(end_pos - pos - char_overlap, 1)

RECURSIVE ChunkLoop(_, _, _, _, _, _)
ChunkLoop(text, pos, chunk_index, char_size, char_overlap, source_file) ==
    IF pos >= Len(text) THEN <<>>
    ELSE LET end_pos == ChunkEnd(text, pos, char_size)
             content == Strip(Slice(text, pos, end_pos))
             chunk == [content |-> content,
                       chunk_index |-> chunk_index,
                       line_start |-> CountNewlines(Slice(text, 0, pos)) + 1,
                       line_end |-> CountNewlines(Slice(text, 0, end_pos)) + 1,
                       token_count |-> estimate_tokens(content),
                       source_file |-> source_file]
         IN IF content = <<>> THEN <<>>
            ELSE IF end_pos >= Len(text) THEN <<chunk>>
            ELSE <<chunk>> \o ChunkLoop(text, NextPos(pos, end_pos, char_overlap),
                                        chunk_index + 1, char_size, char_overlap, source_file)

chunk_text(text, chunk_size, chunk_overlap, source_file) ==
    IF Strip(text) = <<>> THEN <<>>
    ELSE ChunkLoop(text, 0, 0, chunk_size * 4, chunk_overlap * 4, source_file)

\* ------------------------------------------------------------------------
\* State
\* ------------------------------------------------------------------------
VARIABLES
    backend,      \* "sqlite" or "postgres": the backend get_connection resolves
    dimension,    \* recorded embedding dimension (ragops_meta / column type), NoDim if none
    indexMeta,    \* collection -> stored index metadata payload (<<>> if none)
    documents,    \* rows of table documents
    chunks,       \* rows of table chunks, in rowid order
    nextDocId,    \* AUTOINCREMENT counter of documents.id
    repoFiles,    \* rows of table repo_files (lazy collections)
    fs,           \* the ingested directory: path -> raw content
    run,          \* the ingestion run in progress
    ret,          \* what the last operation returned or raised
    query,        \* inputs of the last search / rerank call
    result        \* rows returned by the last search / rerank call

vars ==
    <<backend, dimension, indexMeta, documents, chunks, nextDocId, repoFiles, fs, run, ret,
      query, result>>

storeVars == <<dimension, indexMeta, documents, chunks, nextDocId>>

Collections == {"default", "other"}

Dims == {2, 3}

\* ------------------------------------------------------------------------
\* Index store (services/core/storage.py, services/core/database.py)
\* ------------------------------------------------------------------------
\* compute_sha256: modelled as injective on the texts of the model
compute_sha256(text) == <<"sha256", text>>

\* variant: chunk_overlap is not one of the version keys
INDEX_VERSION_KEYS_without_overlap ==
    <<"repo_commit", "embedding_provider", "embedding_model", "chunk_size">>

INDEX_VERSION_KEYS ==
    <<"repo_commit", "embedding_provider", "embedding_model", "chunk_size", "chunk_overlap">>

\* metadata.get(key, "")
MetaGet(metadata, key) == IF key \in DOMAIN metadata THEN metadata[key] ELSE ""

\* build_index_version: the hash of the five normalised fields, in fixed order
build_index_version(metadata) ==
    <<"v">> \o [i \in 1..Len(INDEX_VERSION_KEYS) |-> MetaGet(metadata, INDEX_VERSION_KEYS[i])]

NoVersion == <<>>

DocsOf(docs, collection) == {d \in docs : d.collection = collection}

ChunksOfDoc(ch, document_id) == SelectSeq(ch, LAMBDA r : r.document_id = document_id)

ChunksOfCollection(docs, ch, collection) ==
    SelectSeq(ch, LAMBDA r : \E d \in docs : d.id = r.document_id /\ d.collection = collection)

document_exists(docs, sha256, collection) ==
    LET rows == {d \in docs : d.sha256 = sha256 /\ d.collection = collection}
    IN IF rows = {} THEN NoId ELSE (CHOOSE d \in rows : TRUE).id

\* variant: the version is not compared (hash-only dedup)
document_exists_for_index_hash_only(docs, sha256, collection, index_version) ==
    document_exists(docs, sha256, collection)

document_exists_for_index(docs, sha256, collection, index_version) ==
    LET rows == {d \in docs : d.sha256 = sha256 /\ d.collection = collection}
    IN IF rows = {} THEN NoId
       ELSE LET row == CHOOSE d \in rows : TRUE
            IN IF row.index_version # index_version THEN NoId ELSE row.id

\* variant: a plain INSERT without the ON CONFLICT clause
upsert_document_always_insert(docs, next_id, s3_key, sha256, collection, index_version) ==
    [documents |-> docs \cup {[id |-> next_id, s3_key |-> s3_key, sha256 |-> sha256,
                               collection |-> collection, index_version |-> index_version]},
     nextDocId |-> next_id + 1,
     id |-> next_id]

\* variant: the row of the path is replaced, whatever its hash
upsert_document_by_path(docs, next_id, s3_key, sha256, collection, index_version) ==
    LET rows == {d \in docs : d.s3_key = s3_key /\ d.collection = collection}
    IN IF rows = {}
       THEN [documents |-> docs \cup {[id |-> next_id, s3_key |-> s3_key, sha256 |-> sha256,
                                       collection |-> collection,
                                       index_version |-> index_version]},
             nextDocId |-> next_id + 1,
             id |-> next_id]
       ELSE LET row == CHOOSE d \in rows : TRUE
            IN [documents |-> (docs \ rows) \cup
                                {[row EXCEPT !.sha256 = sha256,
                                             !.index_version = index_version]},
                nextDocId |-> next_id,
                id |-> row.id]

\* INSERT ... ON CONFLICT (sha256, collection) DO UPDATE SET s3_key, metadata
upsert_document(docs, next_id, s3_key, sha256, collection, index_version) ==
    LET rows == {d \in docs : d.sha256 = sha256 /\ d.collection = collection}
    IN IF rows = {}
       THEN [documents |-> docs \cup {[id |-> next_id, s3_key |-> s3_key, sha256 |-> sha256,
                                       collection |-> collection,
                                       index_version |-> index_version]},
             nextDocId |-> next_id + 1,
             id |-> next_id]
       ELSE LET row == CHOOSE d \in rows : TRUE
            IN [documents |-> (docs \ {row}) \cup
                                {[row EXCEPT !.s3_key = s3_key,
                                             !.index_version = index_version]},
                nextDocId |-> next_id,
                id |-> row.id]

ChunkRow(document_id, chunk) ==
    [document_id |-> document_id,
     chunk_index |-> chunk.chunk_index,
     content |-> chunk.content,
     embedding |-> chunk.embedding,
     source_file |-> chunk.source_file,
     line_start |-> chunk.line_start,
     line_end |-> chunk.line_end]

\* variant: the new chunks are inserted without deleting the old ones
upsert_chunks_no_delete(docs, ch, document_id, new_chunks) ==
    IF new_chunks = <<>>
    THEN [chunks |-> ch, inserted |-> 0, error |-> FALSE]
    ELSE IF \A d \in docs : d.id # document_id
    THEN [chunks |-> ch, inserted |-> 0, error |-> TRUE]
    ELSE [chunks |-> ch \o [i \in 1..Len(new_chunks) |->
                               ChunkRow(document_id, new_chunks[i])],
          inserted |-> Len(new_chunks),
          error |-> FALSE]

\* DELETE FROM chunks WHERE document_id = ?; then INSERT every chunk.
\* The INSERT of a chunk whose document_id is not a stored document violates
\* the foreign key and raises; nothing was deleted in that case.
upsert_chunks(docs, ch, document_id, new_chunks) ==
    LET kept == SelectSeq(ch, LAMBDA r : r.document_id # document_id)
    IN IF new_chunks = <<>>
       THEN [chunks |-> kept, inserted |-> 0, error |-> FALSE]
       ELSE IF \A d \in docs : d.id # document_id
       THEN [chunks |-> ch, inserted |-> 0, error |-> TRUE]
       ELSE [chunks |-> kept \o [i \in 1..Len(new_chunks) |->
                                    ChunkRow(document_id, new_chunks[i])],
             inserted |-> Len(new_chunks),
             error |-> FALSE]

\* variant: the DELETE has no WHERE clause
purge_collection_documents_all(docs, ch, collection) ==
    [documents |-> {},
     chunks |-> <<>>,
     documents_deleted |-> Cardinality(DocsOf(docs, collection)),
     chunks_deleted |-> Len(ChunksOfCollection(docs, ch, collection))]

\* DELETE FROM documents WHERE collection = ? (chunks go by ON DELETE CASCADE)
purge_collection_documents(docs, ch, collection) ==
    [documents |-> {d \in docs : d.collection # collection},
     chunks |-> SelectSeq(ch, LAMBDA r :
                    \E d \in docs : d.id = r.document_id /\ d.collection # collection),
     documents_deleted |-> Cardinality(DocsOf(docs, collection)),
     chunks_deleted |-> Len(ChunksOfCollection(docs, ch, collection))]

\* validate_embedding_dimension: SQLite records the first dimension it sees;
\* Postgres only compares with the column type when that is fixed.
\* variant: the provider dimension is recorded when none is, never compared
validate_embedding_dimension_unchecked(be, dim, provider_dimension) ==
    IF be = "sqlite" /\ dim = NoDim
    THEN [dimension |-> provider_dimension, error |-> FALSE]
    ELSE [dimension |-> dim, error |-> FALSE]

validate_embedding_dimension(be, dim, provider_dimension) ==
    IF be = "sqlite"
    THEN IF dim = NoDim THEN [dimension |-> provider_dimension, error |-> FALSE]
         ELSE IF dim # provider_dimension THEN [dimension |-> dim, error |-> TRUE]
         ELSE [dimension |-> dim, error |-> FALSE]
    ELSE IF dim = NoDim THEN [dimension |-> dim, error |-> FALSE]
         ELSE IF dim # provider_dimension THEN [dimension |-> dim, error |-> TRUE]
         ELSE [dimension |-> dim, error |-> FALSE]

\* variant: the dimension is updated, the stale documents are kept
migrate_embedding_dimension_keeps_rows(docs, ch, dim, new_dimension) ==
    IF new_dimension <= 0
    THEN [documents |-> docs, chunks |-> ch, dimension |-> dim, error |-> TRUE,
          changed |-> FALSE, documents_deleted |-> 0, chunks_deleted |-> 0]
    ELSE IF dim = new_dimension
    THEN [documents |-> docs, chunks |-> ch, dimension |-> dim, error |-> FALSE,
          changed |-> FALSE, documents_deleted |-> 0, chunks_deleted |-> 0]
    ELSE [documents |-> docs, chunks |-> ch, dimension |-> new_dimension, error |-> FALSE,
          changed |-> TRUE, documents_deleted |-> Cardinality(docs),
          chunks_deleted |-> Len(ch)]

migrate_embedding_dimension(docs, ch, dim, new_dimension) ==
    IF new_dimension <= 0
    THEN [documents |-> docs, chunks |-> ch, dimension |-> dim, error |-> TRUE,
          changed |-> FALSE, documents_deleted |-> 0, chunks_deleted |-> 0]
    ELSE IF dim = new_dimension
    THEN [documents |-> docs, chunks |-> ch, dimension |-> dim, error |-> FALSE,
          changed |-> FALSE, documents_deleted |-> 0, chunks_deleted |-> 0]
    ELSE [documents |-> {}, chunks |-> <<>>, dimension |-> new_dimension, error |-> FALSE,
          changed |-> TRUE, documents_deleted |-> Cardinality(docs),
          chunks_deleted |-> Len(ch)]

\* upsert_collection_index_metadata: the payload that is stored and returned
IndexMetadataPayload(collection, metadata) ==
    [repo_commit |-> metadata.repo_commit,
     embedding_provider |-> metadata.embedding_provider,
     embedding_model |-> metadata.embedding_model,
     chunk_size |-> metadata.chunk_size,
     chunk_overlap |-> metadata.chunk_overlap,
     collection |-> collection,
     index_version |-> build_index_version(metadata)]

\* ------------------------------------------------------------------------
\* Ingestion pipeline (services/ingest/app/pipeline.py)
\* ------------------------------------------------------------------------
PathMd == <<"a", ".", "m", "d">>

PathPy == <<"b", ".", "p", "y">>

\* the eligible paths of the directory, in directory-walk order
WalkOrder == <<PathMd, PathPy>>

TextA == <<"a", "b", "\n", "c", "d", "e">>

TextACrLf == <<"a", "b", "\r", "\n", "c", "d", "e">>

TextB == <<"x", "y", ".", " ", "z">>

TextBlank == <<" ", "\n">>

\* a file whose read raises (permissions, broken PDF/DOCX)
Unreadable == <<"<unreadable>">>

\* a path that is not in the directory
Missing == <<"<missing>">>

FileStates(path) ==
    IF path = PathMd THEN {Missing, TextA, TextACrLf, TextB, Unreadable}
    ELSE {Missing, TextA, TextBlank}

ChunkSizes == {1, 2}

ChunkOverlap == 0

ProviderId == "openai"

ModelId == "m1"

\* embedding_provider.embed: one vector of the provider's dimension per text
\* what the provider returns for a text: dim components, one of them non-zero
Embed(dim, text) ==
    [i \in 1..dim |-> IF i = 1 + (Len(text) % 2) THEN Len(text) ELSE 0]

\* collect_ingest_files: the eligible files that exist, in walk order
collect_ingest_files(files) == SelectSeq(WalkOrder, LAMBDA p : files[p] # Missing)

\* _build_index_metadata (the directory is not a git checkout: repo_commit "")
BuildIndexMetadata(chunk_size) ==
    [repo_commit |-> "", embedding_provider |-> ProviderId, embedding_model |-> ModelId,
     chunk_size |-> chunk_size, chunk_overlap |-> ChunkOverlap]

EmptyStats == [indexed_docs |-> 0, skipped_docs |-> 0, total_chunks |-> 0, errors |-> <<>>]

IdleRun ==
    [pc |-> "idle", collection |-> "default", dim |-> 2, chunk_size |-> 1,
     files |-> <<>>, index_version |-> NoVersion, stats |-> EmptyStats]

\* the skip decision of _ingest_file
IsUnchanged(docs, sha, collection, index_version) ==
    IF index_version # NoVersion
    THEN document_exists_for_index(docs, sha, collection, index_version) # NoId
    ELSE document_exists(docs, sha, collection) # NoId

\* _ingest_file: the new store and stats; exc is TRUE when an exception leaves
\* the function (the embedding call or a store call raised); chunks_ok is
\* FALSE when upsert_chunks raises before its first statement (connection lost)
ingest_file_faulty(docs, ch, next_id, stats, raw, path, collection, index_version, chunk_size, dim, embed_ok, chunks_ok) ==
    LET same == [documents |-> docs, chunks |-> ch, nextDocId |-> next_id,
                 stats |-> stats, exc |-> FALSE]
        Records(cks) ==
            [i \in 1..Len(cks) |->
                [chunk_index |-> cks[i].chunk_index, content |-> cks[i].content,
                 embedding |-> Embed(dim, cks[i].content),
                 token_count |-> cks[i].token_count,
                 source_file |-> cks[i].source_file,
                 line_start |-> cks[i].line_start, line_end |-> cks[i].line_end]]
        Store(up, uc) ==
            IF uc.error
            THEN [same EXCEPT !.documents = up.documents, !.nextDocId = up.nextDocId,
                              !.exc = TRUE]
            ELSE [documents |-> up.documents, chunks |-> uc.chunks,
                  nextDocId |-> up.nextDocId,
                  stats |-> [stats EXCEPT !.indexed_docs = @ + 1,
                                          !.total_chunks = @ + uc.inserted],
                  exc |-> FALSE]
        Index(text, cks) ==
            IF cks = <<>> THEN same
            ELSE IF ~embed_ok THEN [same EXCEPT !.exc = TRUE]
            ELSE With(upsert_document(docs, next_id, path, compute_sha256(text), collection,
                                      IF index_version # NoVersion THEN index_version
                                      ELSE <<"unknown">>),
                      LAMBDA up : With(IF chunks_ok
                                       THEN upsert_chunks(up.documents, ch, up.id,
                                                          Records(cks))
                                       ELSE [chunks |-> ch, inserted |-> 0, error |-> TRUE],
                                       LAMBDA uc : Store(up, uc)))
        Decide(text) ==
            IF text = <<>> THEN same
            ELSE IF IsUnchanged(docs, compute_sha256(text), collection, index_version)
            THEN [same EXCEPT !.stats.skipped_docs = @ + 1]
            ELSE With(chunk_text(text, chunk_size, ChunkOverlap, path),
                      LAMBDA cks : Index(text, cks))
    IN IF raw = Unreadable
       THEN [same EXCEPT !.stats.errors = Append(@, [kind |-> "extraction", path |-> path])]
       ELSE With(normalize_text(raw), LAMBDA text : Decide(text))

ingest_file(docs, ch, next_id, stats, raw, path, collection, index_version, chunk_size, dim, embed_ok) ==
    ingest_file_faulty(docs, ch, next_id, stats, raw, path, collection, index_version,
                       chunk_size, dim, embed_ok, TRUE)

\* variant: no try/except around _ingest_file, an exception ends the run
ingest_loop_step_abort(r, out) ==
    IF out.exc
    THEN [r EXCEPT !.files = <<>>, !.stats = out.stats, !.pc = "raised"]
    ELSE [r EXCEPT !.files = Tail(r.files), !.stats = out.stats,
                   !.pc = IF Len(r.files) = 1 THEN "done" ELSE "files"]

\* the body of the file loop of ingest_local_directory: an exception of
\* _ingest_file is caught, recorded, and the loop goes on with the next file
ingest_loop_step(r, out) ==
    [r EXCEPT !.files = Tail(r.files),
              !.stats = IF out.exc
                        THEN [out.stats EXCEPT !.errors =
                                 Append(@, [kind |-> "ingest", path |-> Head(r.files)])]
                        ELSE out.stats,
              !.pc = IF Len(r.files) = 1 THEN "done" ELSE "files"]

NoRunInProgress == run.pc \in {"idle", "done", "raised"}

\* variant: the index version is read from the stored metadata for each file
RunIndexVersion_stored(r, meta) ==
    IF meta[r.collection] = <<>> THEN NoVersion ELSE meta[r.collection].index_version

\* index_metadata=stats.index_metadata: the version the run got back from
\* upsert_collection_index_metadata, whatever is stored by now
RunIndexVersion(r, meta) == r.index_version

\* ingest_local_directory up to get_connection: collect the files; a
\* directory without eligible files returns the empty stats at once
StartRun(collection, dim, chunk_size) ==
    /\ NoRunInProgress
    /\ LET files == collect_ingest_files(fs)
       IN run' = IF files = <<>>
                 THEN [IdleRun EXCEPT !.pc = "done", !.collection = collection,
                                      !.dim = dim, !.chunk_size = chunk_size]
                 ELSE [IdleRun EXCEPT !.pc = "validate", !.collection = collection,
                                      !.dim = dim, !.chunk_size = chunk_size,
                                      !.files = files]
    /\ ret' = [op |-> "ingest", error |-> "none"]
    /\ UNCHANGED <<repoFiles, backend, storeVars, fs, query, result>>

\* validate_embedding_dimension of the run; a mismatch raises out of the run
RunValidate ==
    /\ run.pc = "validate"
    /\ LET v == validate_embedding_dimension(backend, dimension, run.dim)
       IN /\ dimension' = v.dimension
          /\ run' = [run EXCEPT !.pc = IF v.error THEN "raised" ELSE "meta",
                                !.files = IF v.error THEN <<>> ELSE @]
          /\ ret' = [op |-> "ingest",
                     error |-> IF v.error THEN "dimension_mismatch" ELSE "none"]
    /\ UNCHANGED <<repoFiles, backend, indexMeta, documents, chunks, nextDocId, fs, query, result>>

\* upsert_collection_index_metadata of the run
RunIndexMetadata ==
    /\ run.pc = "meta"
    /\ LET payload == IndexMetadataPayload(run.collection, BuildIndexMetadata(run.chunk_size))
       IN /\ indexMeta' = [indexMeta EXCEPT ![run.collection] = payload]
          /\ run' = [run EXCEPT !.pc = "files", !.index_version = payload.index_version]
    /\ UNCHANGED <<repoFiles, backend, dimension, documents, chunks, nextDocId, fs, ret, query, result>>

\* one iteration of the file loop in which upsert_chunks raises
IngestFileStoreFails ==
    /\ run.pc = "files"
    /\ \E out \in {ingest_file_faulty(documents, chunks, nextDocId, run.stats,
                                     fs[Head(run.files)], Head(run.files), run.collection,
                                     RunIndexVersion(run, indexMeta), run.chunk_size,
                                     run.dim, TRUE, FALSE)} :
          /\ out.exc
          /\ out.nextDocId <= MaxDocId + 1
          /\ documents' = out.documents
          /\ chunks' = out.chunks
          /\ nextDocId' = out.nextDocId
          /\ run' = ingest_loop_step(run, out)
    /\ UNCHANGED <<repoFiles, backend, dimension, indexMeta, fs, ret, query, result>>

\* one iteration of the file loop
IngestFile(embed_ok) ==
    /\ run.pc = "files"
    /\ \E out \in {ingest_file(documents, chunks, nextDocId, run.stats, fs[Head(run.files)],
                              Head(run.files), run.collection,
                              RunIndexVersion(run, indexMeta), run.chunk_size, run.dim,
                              embed_ok)} :
          /\ out.nextDocId <= MaxDocId + 1
          /\ documents' = out.documents
          /\ chunks' = out.chunks
          /\ nextDocId' = out.nextDocId
          /\ run' = ingest_loop_step(run, out)
    /\ UNCHANGED <<repoFiles, backend, dimension, indexMeta, fs, ret, query, result>>

\* the user edits, creates or removes a file between two operations
EditFile(path, content) ==
    /\ NoRunInProgress
    /\ content \in FileStates(path)
    /\ fs[path] # content
    /\ fs' = [fs EXCEPT ![path] = content]
    /\ UNCHANGED <<repoFiles, backend, storeVars, run, ret, query, result>>

\* purge_collection_documents called between two operations
Purge(collection) ==
    /\ NoRunInProgress
    /\ LET p == purge_collection_documents(documents, chunks, collection)
       IN /\ documents' = p.documents
          /\ chunks' = p.chunks
          /\ ret' = [op |-> "purge", documents_deleted |-> p.documents_deleted,
                     chunks_deleted |-> p.chunks_deleted]
    /\ UNCHANGED <<repoFiles, backend, dimension, indexMeta, nextDocId, fs, run, query, result>>

\* migrate_embedding_dimension called between two operations
Migrate(new_dimension) ==
    /\ NoRunInProgress
    /\ LET m == migrate_embedding_dimension(documents, chunks, dimension, new_dimension)
       IN /\ documents' = m.documents
          /\ chunks' = m.chunks
          /\ dimension' = m.dimension
          /\ ret' = [op |-> "migrate", error |-> m.error, changed |-> m.changed,
                     documents_deleted |-> m.documents_deleted,
                     chunks_deleted |-> m.chunks_deleted]
    /\ UNCHANGED <<repoFiles, backend, indexMeta, nextDocId, fs, run, query, result>>

EmptyQuery == [op |-> "none"]

Init ==
    /\ backend = "sqlite"
    /\ dimension = NoDim
    /\ indexMeta = [c \in Collections |-> <<>>]
    /\ documents = {}
    /\ chunks = <<>>
    /\ nextDocId = 1
    /\ fs = [p \in Range(WalkOrder) |-> IF p = PathMd THEN TextA ELSE Missing]
    /\ run = IdleRun
    /\ ret = [op |-> "none"]
    /\ query = EmptyQuery
    /\ repoFiles = {}
    /\ result = <<>>

\* Ingestion runs of one provider into one collection, the directory being
\* edited and the chunk size being reconfigured between runs
Next ==
    \/ \E cs \in ChunkSizes : StartRun("default", 2, cs)
    \/ RunValidate
    \/ RunIndexMetadata
    \/ \E ok \in BOOLEAN : IngestFile(ok)
    \/ \E p \in Range(WalkOrder) : \E c \in FileStates(p) : EditFile(p, c)

Spec == Init /\ [][Next]_vars

\* ------------------------------------------------------------------------
\* The store's public operations called directly, on either backend
\* ------------------------------------------------------------------------
ShaA == compute_sha256(normalize_text(TextA))

ShaB == compute_sha256(normalize_text(TextB))

VersionOf(chunk_size) == build_index_version(BuildIndexMetadata(chunk_size))

StoreChunk(i, embedding) ==
    [chunk_index |-> i, content |-> <<"t">>, embedding |-> embedding, token_count |-> 1,
     source_file |-> PathMd, line_start |-> 1, line_end |-> 1]

\* the chunk lists a caller passes to upsert_chunks
StoreChunkLists ==
    {<<>>, <<StoreChunk(0, <<1, 0>>)>>, <<StoreChunk(0, <<0, 1>>), StoreChunk(1, <<1, 1>>)>>}

\* Postgres: chunks.embedding is vector(n), an INSERT of another length fails
FitsColumn(be, dim, new_chunks) ==
    be = "postgres" => \A i \in 1..Len(new_chunks) : Len(new_chunks[i].embedding) = dim

StoreUpsertDocument(s3_key, sha256, collection, index_version) ==
    /\ LET up == upsert_document(documents, nextDocId, s3_key, sha256, collection,
                                 index_version)
       IN /\ up.nextDocId <= MaxDocId + 1
          /\ documents' = up.documents
          /\ nextDocId' = up.nextDocId
          /\ ret' = [op |-> "upsert_document", id |-> up.id]
    /\ UNCHANGED <<repoFiles, backend, dimension, indexMeta, chunks, fs, run, query, result>>

StoreUpsertChunks(document_id, new_chunks) ==
    /\ LET uc == upsert_chunks(documents, chunks, document_id, new_chunks)
           failed == uc.error \/ ~FitsColumn(backend, dimension, new_chunks)
       IN /\ chunks' = IF failed THEN chunks ELSE uc.chunks
          /\ ret' = [op |-> "upsert_chunks", error |-> failed,
                     inserted |-> IF failed THEN 0 ELSE uc.inserted]
    /\ UNCHANGED <<repoFiles, backend, dimension, indexMeta, documents, nextDocId, fs, run,
                   query, result>>

\* SQLite starts without a recorded dimension; the Postgres column is created
\* with a fixed dimension (its ivfflat index needs one)
InitStore ==
    /\ backend \in {"sqlite", "postgres"}
    /\ dimension \in IF backend = "sqlite" THEN {NoDim} ELSE {2}
    /\ indexMeta = [c \in Collections |-> <<>>]
    /\ documents = {}
    /\ chunks = <<>>
    /\ nextDocId = 1
    /\ fs = [p \in Range(WalkOrder) |-> Missing]
    /\ run = IdleRun
    /\ ret = [op |-> "none"]
    /\ query = EmptyQuery
    /\ repoFiles = {}
    /\ result = <<>>

\* the (s3_key, index_version) pairs a caller passes with a document
StorePayloads == {<<PathMd, VersionOf(1)>>, <<PathPy, VersionOf(2)>>}

\* the (sha256, collection) pairs a caller passes with a document
StorePairs == {<<ShaA, "default">>, <<ShaB, "default">>, <<ShaA, "other">>}

NextStore ==
    \/ \E hc \in StorePairs, p \in StorePayloads :
          StoreUpsertDocument(p[1], hc[1], hc[2], p[2])
    \/ \E id \in 1..MaxDocId, cl \in StoreChunkLists : StoreUpsertChunks(id, cl)
    \/ \E c \in Collections : Purge(c)

SpecStore == InitStore /\ [][NextStore]_vars

\* the operation a step belongs to (every operation sets ret.op); the step
\* properties name the operation first, then the case, then the step itself
IsOp(name) == ret'.op = name

\* ------------------------------------------------------------------------
\* Properties of the ingestion pipeline (specification Spec)
\* ------------------------------------------------------------------------
\* a step of the file loop
FileStep == run.pc = "files" /\ run' # run

CurrentPath == Head(run.files)

CurrentText == normalize_text(fs[CurrentPath])

\* the file of this step was read and has text after normalisation
CurrentHasText == fs[CurrentPath] # Unreadable /\ CurrentText # <<>>

StoredSameHash ==
    {d \in documents : d.sha256 = compute_sha256(CurrentText) /\ d.collection = run.collection}

StoredSameHashAndVersion == {d \in StoredSameHash : d.index_version = run.index_version}

ErrorRecorded == Len(run'.stats.errors) > Len(run.stats.errors)

\* C1: a file with text is counted as skipped exactly when a stored document
\* of the collection has its content hash and the index version of the run, and
\* then nothing is rewritten; when the hash is stored under another index
\* version the file is not skipped but reindexed (indexed_docs + 1, document
\* and chunks rewritten under the run's version) unless the step fails; a file
\* is never indexed while a document with its hash and version is stored.
C1_SkipIffHashAndVersion ==
    [][(FileStep /\ CurrentHasText) =>
        /\ (run'.stats.skipped_docs = run.stats.skipped_docs + 1)
               <=> (StoredSameHashAndVersion # {})
        /\ (StoredSameHashAndVersion # {}) =>
               /\ documents' = documents
               /\ chunks' = chunks
               /\ run'.stats.indexed_docs = run.stats.indexed_docs
        /\ (StoredSameHashAndVersion = {} /\ StoredSameHash # {} /\ ~ErrorRecorded) =>
               /\ run'.stats.indexed_docs = run.stats.indexed_docs + 1
               /\ run'.stats.skipped_docs = run.stats.skipped_docs
               /\ \E d \in documents' :
                     /\ d.sha256 = compute_sha256(CurrentText)
                     /\ d.collection = run.collection
                     /\ d.index_version = run.index_version
                     /\ \A old \in StoredSameHash : old.id = d.id
                     /\ Len(ChunksOfDoc(chunks', d.id)) =
                            Len(chunk_text(CurrentText, run.chunk_size, ChunkOverlap,
                                           CurrentPath))
        /\ (run'.stats.indexed_docs # run.stats.indexed_docs) =>
               StoredSameHashAndVersion = {}
    ]_vars

\* C1 witness: a run has finished in which a document stored under the other
\* chunk size was reindexed (its chunk rows now follow those of a younger
\* document) and has the run's index version
C1_Witness ==
    /\ run.pc = "done"
    /\ run.stats.indexed_docs >= 1
    /\ \E d \in documents :
          /\ d.id = 1
          /\ d.index_version = run.index_version
          /\ \E i, j \in 1..Len(chunks) :
                i < j /\ chunks[i].document_id = 2 /\ chunks[j].document_id = 1

SamePair(d, sha256, collection) == d.sha256 = sha256 /\ d.collection = collection

\* C2: the store never holds two documents with the same (sha256, collection);
\* an upsert_document for a stored pair returns the id of the stored document
\* and overwrites its key and metadata without adding a row; every document of
\* another hash or collection, and every chunk, is left as it was.
C2_UpsertDocumentIdempotent ==
    [][\A k \in Range(WalkOrder), h \in {ShaA, ShaB}, c \in Collections,
          v \in {VersionOf(1), VersionOf(2)} :
          IsOp("upsert_document") /\ StoreUpsertDocument(k, h, c, v) =>
             /\ \A d1, d2 \in documents' :
                   (d1.sha256 = d2.sha256 /\ d1.collection = d2.collection) => d1 = d2
             /\ \A d1, d2 \in documents' : d1.id = d2.id => d1 = d2
             /\ \E d \in documents' :
                   /\ SamePair(d, h, c)
                   /\ d.s3_key = k
                   /\ d.index_version = v
                   /\ d.id = ret'.id
             /\ \A old \in documents :
                   SamePair(old, h, c) =>
                       /\ ret'.id = old.id
                       /\ Cardinality(documents') = Cardinality(documents)
             /\ {d \in documents' : ~SamePair(d, h, c)} =
                    {d \in documents : ~SamePair(d, h, c)}
             /\ chunks' = chunks
    ]_vars

\* C2 witness: two documents were created and the last upsert_document
\* returned the id of the first one
C2_Witness ==
    /\ ret.op = "upsert_document"
    /\ ret.id = 1
    /\ nextDocId = 3
    /\ Cardinality(documents) = 2

ChunkFields(r) ==
    [chunk_index |-> r.chunk_index, content |-> r.content, embedding |-> r.embedding,
     source_file |-> r.source_file, line_start |-> r.line_start, line_end |-> r.line_end]

\* C3: when upsert_chunks(document_id, chunks) returns, the rows owned by
\* document_id are the passed chunks, in order, and nothing else; the rows of
\* every other document and the documents are as before; the number of passed
\* chunks is returned, 0 for an empty list, which leaves the document stored.
C3_UpsertChunksReplaces ==
    [][\A id \in 1..MaxDocId, cl \in StoreChunkLists :
          (IsOp("upsert_chunks") /\ StoreUpsertChunks(id, cl) /\ ~ret'.error) =>
             /\ Len(ChunksOfDoc(chunks', id)) = Len(cl)
             /\ \A i \in 1..Len(cl) :
                   ChunkFields(ChunksOfDoc(chunks', id)[i]) = ChunkFields(cl[i])
             /\ SelectSeq(chunks', LAMBDA r : r.document_id # id) =
                    SelectSeq(chunks, LAMBDA r : r.document_id # id)
             /\ documents' = documents
             /\ ret'.inserted = Len(cl)
    ]_vars

\* C3 witness: upsert_chunks with an empty list has returned 0, a document
\* without chunks is stored next to a document that kept its chunks
C3_Witness ==
    /\ ret.op = "upsert_chunks"
    /\ ~ret.error
    /\ ret.inserted = 0
    /\ \E d1, d2 \in documents :
          /\ ChunksOfDoc(chunks, d1.id) = <<>>
          /\ Len(ChunksOfDoc(chunks, d2.id)) = 2

\* C7: purge_collection_documents(collection) leaves no document and no chunk
\* of the collection, returns the numbers of documents and chunks that were
\* stored for it, and leaves the documents and chunks of the other collections
\* as they were.
C7_PurgeCollection ==
    [][\A c \in Collections :
          IsOp("purge") /\ Purge(c) =>
             /\ \A d \in documents' : d.collection # c
             /\ \A i \in 1..Len(chunks') :
                   \E d \in documents' : d.id = chunks'[i].document_id
             /\ \A c2 \in Collections \ {c} :
                   /\ DocsOf(documents', c2) = DocsOf(documents, c2)
                   /\ ChunksOfCollection(documents', chunks', c2) =
                          ChunksOfCollection(documents, chunks, c2)
             /\ ret'.documents_deleted = Cardinality(documents) - Cardinality(documents')
             /\ ret'.chunks_deleted = Len(chunks) - Len(chunks')
             /\ ret'.documents_deleted = Cardinality(DocsOf(documents, c))
    ]_vars

\* C7 witness: a purge has deleted a document with chunks while a document
\* with chunks of the other collection is still stored
C7_Witness ==
    /\ ret.op = "purge"
    /\ ret.documents_deleted >= 1
    /\ ret.chunks_deleted >= 1
    /\ documents # {}
    /\ chunks # <<>>

\* ------------------------------------------------------------------------
\* Vector search (storage.search_vectors, database.search_vectors)
\* Similarities are in hundredths; the vectors used have integer norms, so the
\* quotient is exact.
\* ------------------------------------------------------------------------
RECURSIVE Dot(_, _)
Dot(a, b) == IF a = <<>> THEN 0 ELSE Head(a) * Head(b) + Dot(Tail(a), Tail(b))

Norm(v) == CHOOSE n \in 0..Dot(v, v) : n * n = Dot(v, v)

cosine_similarity(a, b) ==
    IF a = <<>> \/ b = <<>> \/ Len(a) # Len(b)
    THEN 0
    ELSE IF Norm(a) = 0 \/ Norm(b) = 0
    THEN 0
    ELSE (Dot(a, b) * 100) \div (Norm(a) * Norm(b))

\* the SELECT ... JOIN documents ... WHERE d.collection = ?, one dict per row
ScoredRows(docs, ch, query_embedding, collection) ==
    LET rows == ChunksOfCollection(docs, ch, collection)
    IN [i \in 1..Len(rows) |->
          [content |-> rows[i].content,
           source_file |-> rows[i].source_file,
           line_start |-> rows[i].line_start,
           line_end |-> rows[i].line_end,
           chunk_index |-> rows[i].chunk_index,
           s3_key |-> (CHOOSE d \in docs : d.id = rows[i].document_id).s3_key,
           similarity |-> cosine_similarity(query_embedding, rows[i].embedding)]]

\* list.sort(key=similarity, reverse=True): stable, equal keys keep their order
RECURSIVE InsertBySimilarity(_, _)
InsertBySimilarity(sorted, item) ==
    IF sorted = <<>>
    THEN <<item>>
    ELSE IF Head(sorted).similarity >= item.similarity
    THEN <<Head(sorted)>> \o InsertBySimilarity(Tail(sorted), item)
    ELSE <<item>> \o sorted

RECURSIVE SortBySimilarity(_)
SortBySimilarity(items) ==
    IF items = <<>>
    THEN <<>>
    ELSE InsertBySimilarity(SortBySimilarity(SubSeq(items, 1, Len(items) - 1)),
                            items[Len(items)])

\* SQLite: brute force over the rows of the collection, scored[: max(1, top_k)]
sqlite_search_vectors(docs, ch, query_embedding, collection, top_k) ==
    LET scored == SortBySimilarity(ScoredRows(docs, ch, query_embedding, collection))
    IN Slice(scored, 0, Min2(Len(scored), Max2(1, top_k)))

\* Postgres: ORDER BY c.embedding <=> q LIMIT top_k; rows at the same distance
\* come in an order the plan decides, so every order of ties is an outcome
pg_search_vectors(docs, ch, query_embedding, collection, top_k) ==
    LET scored == ScoredRows(docs, ch, query_embedding, collection)
        n == Min2(Len(scored), top_k)
        Injective(f) == \A i, j \in 1..n : f[i] = f[j] => i = j
        Ordered(f) ==
            /\ \A i \in 1..(n - 1) : scored[f[i]].similarity >= scored[f[i + 1]].similarity
            /\ \A r \in 1..Len(scored) :
                  (\A i \in 1..n : f[i] # r) =>
                      \A i \in 1..n : scored[f[i]].similarity >= scored[r].similarity
    IN {[i \in 1..n |-> scored[f[i]]] :
            f \in {g \in [1..n -> 1..Len(scored)] : Injective(g) /\ Ordered(g)}}

\* the outcomes of search_vectors on the backend of the connection
search_vectors(be, docs, ch, query_embedding, collection, top_k) ==
    IF be = "sqlite"
    THEN {sqlite_search_vectors(docs, ch, query_embedding, collection, top_k)}
    ELSE pg_search_vectors(docs, ch, query_embedding, collection, top_k)

SearchVecs == {<<1, 0>>, <<0, 1>>, <<3, 4>>}

ZeroVec == <<0, 0>>

SearchDocs ==
    {[id |-> 1, s3_key |-> PathMd, sha256 |-> ShaA, collection |-> "default",
      index_version |-> VersionOf(1)],
     [id |-> 2, s3_key |-> PathPy, sha256 |-> ShaB, collection |-> "other",
      index_version |-> VersionOf(1)]}

\* the embeddings a chunks table of the backend can hold: the vector(n) column
\* of Postgres takes vectors of its dimension; the JSON column of SQLite takes any
RowVecs(be) == IF be = "sqlite" THEN SearchVecs \cup {ZeroVec} ELSE SearchVecs

SearchTables(be) ==
    UNION {[1..n -> [document_id : 1..2, embedding : RowVecs(be)]] : n \in 0..MaxRows}

SearchRow(t, i) ==
    ChunkRow(t[i].document_id,
             [chunk_index |-> i - 1, content |-> <<"t">>, embedding |-> t[i].embedding,
              source_file |-> IF t[i].document_id = 1 THEN PathMd ELSE PathPy,
              line_start |-> i, line_end |-> i])

SearchVectors(query_embedding, collection, top_k) ==
    /\ query.op = "none"
    /\ \E r \in search_vectors(backend, documents, chunks, query_embedding, collection, top_k) :
          result' = r
    /\ query' = [op |-> "search", embedding |-> query_embedding,
                 collection |-> collection, top_k |-> top_k]
    /\ UNCHANGED <<repoFiles, backend, dimension, indexMeta, documents, chunks, nextDocId, fs, run, ret>>

InitSearch ==
    /\ backend \in {"sqlite", "postgres"}
    /\ dimension = 2
    /\ indexMeta = [c \in Collections |-> <<>>]
    /\ documents = SearchDocs
    /\ \E t \in SearchTables(backend) : chunks = [i \in 1..Len(t) |-> SearchRow(t, i)]
    /\ nextDocId = 3
    /\ fs = [p \in Range(WalkOrder) |-> Missing]
    /\ run = IdleRun
    /\ ret = [op |-> "none"]
    /\ query = EmptyQuery
    /\ repoFiles = {}
    /\ result = <<>>

NextSearch ==
    \E q \in SearchVecs, c \in Collections, k \in 0..MaxTopK : SearchVectors(q, c, k)

SpecSearch == InitSearch /\ [][NextSearch]_vars

\* the rows of the requested collection, as search results
Candidates == ScoredRows(documents, chunks, query.embedding, query.collection)

ResultFromCollection ==
    \A i \in 1..Len(result) : \E j \in 1..Len(Candidates) : result[i] = Candidates[j]

ResultDescending ==
    \A i \in 1..(Len(result) - 1) : result[i].similarity >= result[i + 1].similarity

\* C4 (as stated): for every top_k, 0 included, search_vectors returns at most
\* top_k chunks, all of the requested collection, by descending similarity, on
\* both backends.
C4_SearchAtMostTopK ==
    query.op = "search" =>
        /\ Len(result) <= query.top_k
        /\ ResultFromCollection
        /\ ResultDescending

\* what the code does keep: at most max(1, top_k) chunks on SQLite and top_k on
\* Postgres, of the requested collection, by descending similarity, and none
\* left out that is more similar than a returned one
SearchContractFromOne ==
    query.op = "search" =>
        /\ Len(result) =
              Min2(Len(Candidates),
                   IF backend = "sqlite" THEN Max2(1, query.top_k) ELSE query.top_k)
        /\ ResultFromCollection
        /\ ResultDescending
        /\ \A j \in 1..Len(Candidates) :
              (\A i \in 1..Len(result) : result[i] # Candidates[j]) =>
                  \A i \in 1..Len(result) : result[i].similarity >= Candidates[j].similarity

\* the failing case of C4: SQLite, top_k = 0, one chunk returned
SearchZeroReturnsOne ==
    /\ backend = "sqlite"
    /\ query.op = "search"
    /\ query.top_k = 0
    /\ Len(result) = 1

\* ------------------------------------------------------------------------
\* Reranking (api/app/retriever.py). Questions and sources are sequences of
\* characters; scores are in hundredths.
\* ------------------------------------------------------------------------
UpperCase == <<"A", "B", "C", "D", "E", "F", "G", "H", "I", "J", "K", "L", "M", "N", "O", "P", "Q", "R", "S", "T", "U", "V", "W", "X", "Y", "Z">>

LowerCase == <<"a", "b", "c", "d", "e", "f", "g", "h", "i", "j", "k", "l", "m", "n", "o", "p", "q", "r", "s", "t", "u", "v", "w", "x", "y", "z">>

Digits == {"0", "1", "2", "3", "4", "5", "6", "7", "8", "9"}

LowerMap ==
    [c \in Range(UpperCase) |->
        LowerCase[CHOOSE i \in 1..Len(UpperCase) : UpperCase[i] = c]] @@ <<>>

\* str.lower() on one character
LowerChar(c) == IF c \in DOMAIN LowerMap THEN LowerMap[c] ELSE c

Lower(s) == [i \in 1..Len(s) |-> LowerChar(s[i])] \o <<>>

BROAD_QUERY_TERMS ==
    {<<"a", "r", "c", "h", "i", "t", "e", "c", "t", "u", "r", "e">>,
     <<"a", "r", "q", "u", "i", "t", "e", "c", "t", "u", "r", "e">>,
     <<"o", "v", "e", "r", "v", "i", "e", "w">>,
     <<"s", "y", "s", "t", "e", "m">>,
     <<"d", "e", "s", "i", "g", "n">>,
     <<"h", "i", "g", "h", " ", "l", "e", "v", "e", "l">>,
     <<"h", "o", "w", " ", "d", "o", "e", "s", " ", "t", "h", "i", "s", " ", "w", "o", "r", "k">>,
     <<"w", "h", "a", "t", " ", "i", "s", " ", "t", "h", "i", "s", " ", "p", "r", "o", "j", "e", "c", "t">>,
     <<"w", "h", "a", "t", " ", "c", "a", "n", " ", "i", " ", "a", "s", "k">>,
     <<"o", "n", "b", "o", "a", "r", "d">>,
     <<"o", "n", "b", "o", "a", "r", "d", "i", "n", "g">>}

HIGH_LEVEL_SOURCE_HINTS ==
    {<<"r", "e", "a", "d", "m", "e">>,
     <<"d", "o", "c", "s", "/">>,
     <<"m", "a", "n", "u", "a", "l">>,
     <<"a", "r", "c", "h", "i", "t", "e", "c", "t", "u", "r", "e">>,
     <<"r", "u", "n", "b", "o", "o", "k", "s">>,
     <<"u", "s", "e", "r", "-", "g", "u", "i", "d", "e">>,
     <<".", "m", "d">>}

MANUAL_SOURCE_HINTS ==
    {<<"p", "r", "o", "j", "e", "c", "t", "_", "o", "v", "e", "r", "v", "i", "e", "w", ".", "m", "d">>,
     <<"a", "r", "c", "h", "i", "t", "e", "c", "t", "u", "r", "e", "_", "m", "a", "p", ".", "m", "d">>,
     <<"c", "o", "d", "e", "b", "a", "s", "e", "_", "m", "a", "n", "u", "a", "l", ".", "m", "d">>,
     <<"a", "p", "i", "_", "m", "a", "n", "u", "a", "l", ".", "m", "d">>,
     <<"a", "r", "c", "h", "i", "t", "e", "c", "t", "u", "r", "e", "_", "d", "i", "a", "g", "r", "a", "m", ".", "m", "d">>,
     <<"o", "p", "e", "r", "a", "t", "i", "o", "n", "s", "_", "r", "u", "n", "b", "o", "o", "k", ".", "m", "d">>,
     <<"u", "n", "k", "n", "o", "w", "n", "s", "_", "a", "n", "d", "_", "g", "a", "p", "s", ".", "m", "d">>,
     <<"d", "a", "t", "a", "b", "a", "s", "e", "_", "m", "a", "n", "u", "a", "l", ".", "m", "d">>}

LOW_VALUE_PATH_HINTS ==
    {<<".", "e", "g", "g", "-", "i", "n", "f", "o", "/">>,
     <<".", "e", "g", "g", "-", "i", "n", "f", "o", "\\">>,
     <<"_", "_", "p", "y", "c", "a", "c", "h", "e", "_", "_", "/">>,
     <<"_", "_", "p", "y", "c", "a", "c", "h", "e", "_", "_", "\\">>,
     <<".", "p", "y", "t", "e", "s", "t", "_", "c", "a", "c", "h", "e", "/">>,
     <<".", "p", "y", "t", "e", "s", "t", "_", "c", "a", "c", "h", "e", "\\">>,
     <<".", "r", "u", "f", "f", "_", "c", "a", "c", "h", "e", "/">>,
     <<".", "r", "u", "f", "f", "_", "c", "a", "c", "h", "e", "\\">>,
     <<"b", "u", "i", "l", "d", "/", "p", "a", "c", "k", "a", "g", "e", "/">>,
     <<"b", "u", "i", "l", "d", "/", "p", "a", "c", "k", "a", "g", "e", "\\">>}

CODE_SUFFIXES ==
    {<<".", "p", "y">>,
     <<".", "t", "s">>,
     <<".", "t", "s", "x">>,
     <<".", "j", "s">>,
     <<".", "j", "s", "x">>,
     <<".", "g", "o">>,
     <<".", "r", "s">>,
     <<".", "j", "a", "v", "a">>,
     <<".", "k", "t">>}

DocSuffixes ==
    {<<".", "m", "d">>,
     <<".", "t", "x", "t">>,
     <<".", "r", "s", "t">>,
     <<".", "a", "d", "o", "c">>}

is_broad_query(question) ==
    LET text == Lower(Strip(question))
    IN \E term \in BROAD_QUERY_TERMS : Contains(text, term)

\* [a-z0-9]
AlnumChars == Range(LowerCase) \cup Digits

\* [a-z0-9_-]
WordChars == AlnumChars \cup {"_", "-"}

\* [a-z0-9_.-]
HintChars == WordChars \cup {"."}

\* the maximal runs of characters of a class, left to right
RECURSIVE RunsOf(_, _, _)
RunsOf(s, class, current) ==
    IF s = <<>>
    THEN IF current = <<>> THEN {} ELSE {current}
    ELSE IF Head(s) \in class
    THEN RunsOf(Tail(s), class, Append(current, Head(s)))
    ELSE (IF current = <<>> THEN {} ELSE {current}) \cup RunsOf(Tail(s), class, <<>>)

RECURSIVE StripTrailingDots(_)
StripTrailingDots(s) ==
    IF s # <<>> /\ s[Len(s)] = "."
    THEN StripTrailingDots(SubSeq(s, 1, Len(s) - 1))
    ELSE s

\* re.findall(r"([a-zA-Z0-9_.-]+\.[a-zA-Z0-9_-]+)", question.lower()), len >= 4:
\* in each run of [a-z0-9_.-] the match is the run without its trailing dots,
\* when a dot is left in it that is not its first character
extract_file_hints(question) ==
    {m \in {StripTrailingDots(r) : r \in RunsOf(Lower(question), HintChars, <<>>)} :
        /\ \E i \in 2..Len(m) : m[i] = "."
        /\ Len(m) >= 4}

\* tokenize_question(question) is not empty: TOKEN_RE [a-z0-9][a-z0-9_-]{1,}
\* finds a token of at least 3 characters
has_question_tokens(question) ==
    LET text == Lower(question)
    IN \E i \in 1..(Len(text) - 2) :
          /\ text[i] \in AlnumChars
          /\ text[i + 1] \in WordChars
          /\ text[i + 2] \in WordChars

is_low_value_source(source) ==
    \E hint \in LOW_VALUE_PATH_HINTS : Contains(Lower(source), hint)

is_high_level_source(source) ==
    LET src == Lower(source)
    IN IF \E suffix \in CODE_SUFFIXES : EndsWith(src, suffix)
       THEN FALSE
       ELSE IF \E suffix \in DocSuffixes : EndsWith(src, suffix)
       THEN TRUE
       ELSE \E hint \in HIGH_LEVEL_SOURCE_HINTS : Contains(src, hint)

is_manual_source(source) ==
    \E hint \in MANUAL_SOURCE_HINTS : Contains(Lower(source), hint)

\* CODEOWNERS bonus: 0 without question tokens or for a path that is not
\* absolute; otherwise what the CODEOWNERS file of the checkout gives
\* (owner match 18, area match 10), an input of the environment
ownership_bonus_for_source(source, has_tokens, profile_bonus) ==
    IF ~has_tokens
    THEN 0
    ELSE IF source = <<>> \/ Head(source) # "/"
    THEN 0
    ELSE profile_bonus

PyprojectToml == <<"p", "y", "p", "r", "o", "j", "e", "c", "t", ".", "t", "o", "m", "l">>

source_bonus(source, broad, has_tokens, profile_bonus) ==
    LET src == Lower(source)
    IN (IF is_low_value_source(src) THEN -30 ELSE 0)
       + (IF has_tokens
          THEN ownership_bonus_for_source(source, has_tokens, profile_bonus)
          ELSE 0)
       + (IF broad /\ is_manual_source(src) THEN 18 ELSE 0)
       + (IF broad /\ \E hint \in HIGH_LEVEL_SOURCE_HINTS : Contains(src, hint)
          THEN 12 ELSE 0)
       + (IF broad /\ is_high_level_source(src) THEN 10 ELSE 0)
       + (IF broad /\ EndsWith(src, PyprojectToml) THEN -4 ELSE 0)

\* chunk.get("source_file", chunk.get("s3_key", "unknown"))
ChunkSource(chunk) == chunk.source_file

\* _chunk_key
chunk_key(chunk) ==
    <<ChunkSource(chunk), chunk.line_start, chunk.line_end, chunk.chunk_index>>

\* the score of one candidate: similarity + source bonus + file-hint bonus
ChunkScore(chunk, broad, file_hints, has_tokens, profile_bonus) ==
    LET source == ChunkSource(chunk)
    IN chunk.similarity
       + source_bonus(source, broad, has_tokens, profile_bonus)
       + (IF file_hints # {} /\ \E hint \in file_hints : Contains(Lower(source), hint)
          THEN 25 ELSE 0)

\* scored.sort(key=score, reverse=True): stable
RECURSIVE InsertByScore(_, _)
InsertByScore(sorted, item) ==
    IF sorted = <<>>
    THEN <<item>>
    ELSE IF Head(sorted).score >= item.score
    THEN <<Head(sorted)>> \o InsertByScore(Tail(sorted), item)
    ELSE <<item>> \o sorted

RECURSIVE SortByScore(_)
SortByScore(items) ==
    IF items = <<>>
    THEN <<>>
    ELSE InsertByScore(SortByScore(SubSeq(items, 1, Len(items) - 1)), items[Len(items)])

ScoredChunks(question, cands, profile_bonus) ==
    LET broad == is_broad_query(question)
        file_hints == extract_file_hints(question)
        has_tokens == has_question_tokens(question)
    IN SortByScore([i \in 1..Len(cands) |->
                       [score |-> ChunkScore(cands[i], broad, file_hints, has_tokens,
                                             profile_bonus),
                        chunk |-> cands[i]]] \o <<>>)

\* variant: the scored list is the pool, whatever the number of preferred chunks
RankedChunks_unfiltered(question, cands, top_k, profile_bonus) ==
    LET scored == ScoredChunks(question, cands, profile_bonus)
    IN [i \in 1..Len(scored) |-> scored[i].chunk] \o <<>>

\* ranked_pool = preferred if len(preferred) >= top_k else scored
RankedChunks(question, cands, top_k, profile_bonus) ==
    LET scored == ScoredChunks(question, cands, profile_bonus)
        preferred == SelectSeq(scored, LAMBDA it : ~is_low_value_source(ChunkSource(it.chunk)))
        ranked_pool == IF Len(preferred) >= top_k THEN preferred ELSE scored
        RECURSIVE ChunksOfPool(_)
        ChunksOfPool(pool) ==
            IF pool = <<>> THEN <<>> ELSE <<Head(pool).chunk>> \o ChunksOfPool(Tail(pool))
    IN ChunksOfPool(ranked_pool)

\* first loop of _select_diverse: one chunk per source
RECURSIVE SelectBySource(_, _, _, _)
SelectBySource(candidates, limit, selected, seen_sources) ==
    IF candidates = <<>>
    THEN [selected |-> selected, full |-> FALSE]
    ELSE LET chunk == Head(candidates)
             source == Lower(ChunkSource(chunk))
         IN IF source \in seen_sources
                 \/ \E j \in 1..Len(selected) : chunk_key(selected[j]) = chunk_key(chunk)
            THEN SelectBySource(Tail(candidates), limit, selected, seen_sources)
            ELSE IF Len(selected) + 1 >= limit
            THEN [selected |-> Append(selected, chunk), full |-> TRUE]
            ELSE SelectBySource(Tail(candidates), limit, Append(selected, chunk),
                                seen_sources \cup {source})

\* second loop of _select_diverse: fill up with chunks whose key is new
RECURSIVE SelectByKey(_, _, _)
SelectByKey(candidates, limit, selected) ==
    IF candidates = <<>>
    THEN selected
    ELSE LET chunk == Head(candidates)
         IN IF \E j \in 1..Len(selected) : chunk_key(selected[j]) = chunk_key(chunk)
            THEN SelectByKey(Tail(candidates), limit, selected)
            ELSE IF Len(selected) + 1 >= limit
            THEN Append(selected, chunk)
            ELSE SelectByKey(Tail(candidates), limit, Append(selected, chunk))

\* variant: the chunks are taken in ranked order, one per key
select_diverse_in_order(candidates, limit) == SelectByKey(candidates, limit, <<>>)

select_diverse(candidates, limit) ==
    LET first == SelectBySource(candidates, limit, <<>>, {})
    IN IF first.full THEN first.selected ELSE SelectByKey(candidates, limit, first.selected)

\* variant: no tiers, the ranked order is kept for a broad question
TieredChunks_untiered(ranked_chunks) == ranked_chunks

\* manual_level + high_level + code_level, each in ranked order
TieredChunks(ranked_chunks) ==
    LET manual_level == SelectSeq(ranked_chunks, LAMBDA c : is_manual_source(ChunkSource(c)))
        high_level == SelectSeq(ranked_chunks,
                                LAMBDA c : /\ ~is_manual_source(ChunkSource(c))
                                           /\ is_high_level_source(ChunkSource(c)))
        code_level == SelectSeq(ranked_chunks,
                                LAMBDA c : /\ ~is_manual_source(ChunkSource(c))
                                           /\ ~is_high_level_source(ChunkSource(c)))
    IN manual_level \o high_level \o code_level

rerank_query_chunks(question, cands, top_k, profile_bonus) ==
    LET ranked_chunks == RankedChunks(question, cands, top_k, profile_bonus)
    IN IF ~is_broad_query(question)
       THEN select_diverse(ranked_chunks, top_k)
       ELSE select_diverse(TieredChunks(ranked_chunks), top_k)

SrcReadme == <<"R", "E", "A", "D", "M", "E", ".", "m", "d">>

SrcCode == <<"a", ".", "p", "y">>

SrcManual == <<"p", "r", "o", "j", "e", "c", "t", "_", "o", "v", "e", "r", "v", "i", "e", "w", ".", "m", "d">>

SrcCache == <<".", "r", "u", "f", "f", "_", "c", "a", "c", "h", "e", "/", "x", ".", "m", "d">>

SrcAbsolute == <<"/", "r", "/", "o", ".", "p", "y">>

Cand(source, chunk_index, similarity) ==
    [source_file |-> source, line_start |-> chunk_index + 1, line_end |-> chunk_index + 1,
     chunk_index |-> chunk_index, similarity |-> similarity]

\* two chunks of README.md, two rows with one key (a file stored twice, under
\* two content hashes), a manual, a cache file and a file with an absolute path
CandidatePool ==
    {Cand(SrcReadme, 0, 60), Cand(SrcReadme, 1, 50), Cand(SrcCode, 0, 90),
     Cand(SrcCode, 0, 70), Cand(SrcManual, 0, 40), Cand(SrcCache, 0, 95),
     Cand(SrcAbsolute, 0, 57)}

CandidateLists ==
    UNION {{f \in [1..n -> CandidatePool] : \A i, j \in 1..n : f[i] = f[j] => i = j} :
              n \in 0..MaxCand}

QBroad == <<"O", "v", "e", "r", "v", "i", "e", "w">>

QHint == <<"a", ".", "p", "y">>

QPlain == <<"a", "u", "t", "h">>

QBroadHint == <<"d", "e", "s", "i", "g", "n", " ", "a", ".", "p", "y">>

Questions == {QBroad, QHint, QPlain, QBroadHint}

ProfileBonuses == {0, 10, 18, 28}

Rerank ==
    /\ query.op = "rerank_call"
    /\ result' = rerank_query_chunks(query.question, query.chunks, query.top_k,
                                     query.profile_bonus)
    /\ query' = [query EXCEPT !.op = "rerank"]
    /\ UNCHANGED <<repoFiles, backend, dimension, indexMeta, documents, chunks, nextDocId, fs, run, ret>>

InitRerank ==
    /\ backend = "sqlite"
    /\ dimension = NoDim
    /\ indexMeta = [c \in Collections |-> <<>>]
    /\ documents = {}
    /\ chunks = <<>>
    /\ nextDocId = 1
    /\ fs = [p \in Range(WalkOrder) |-> Missing]
    /\ run = IdleRun
    /\ ret = [op |-> "none"]
    /\ \E q \in Questions, cl \in CandidateLists, k \in 0..MaxTopK, b \in ProfileBonuses :
          /\ (b # 0) => (has_question_tokens(q) /\ \E i \in 1..Len(cl) :
                                                    ChunkSource(cl[i]) = SrcAbsolute)
          /\ query = [op |-> "rerank_call", question |-> q, chunks |-> cl, top_k |-> k,
                      profile_bonus |-> b]
    /\ repoFiles = {}
    /\ result = <<>>

NextRerank == Rerank

SpecRerank == InitRerank /\ [][NextRerank]_vars

KeysOf(s) == {chunk_key(s[i]) : i \in 1..Len(s)}

\* C9 (as stated): rerank_query_chunks returns at most top_k chunks, no two
\* with one (source, line_start, line_end, chunk_index) key; exactly top_k when
\* the candidates have at least top_k distinct keys.
C9_RerankExactlyTopK ==
    query.op = "rerank" =>
        /\ Len(result) <= query.top_k
        /\ Cardinality(KeysOf(result)) = Len(result)
        /\ (Cardinality(KeysOf(query.chunks)) >= query.top_k) => Len(result) = query.top_k

\* a failing case of C9 with top_k >= 1: the candidates have top_k distinct
\* keys and fewer chunks are returned
RerankShortOfTopK ==
    /\ query.op = "rerank"
    /\ query.top_k >= 1
    /\ query.profile_bonus = 0
    /\ Cardinality(KeysOf(query.chunks)) >= query.top_k
    /\ Len(result) < query.top_k

\* the other failing case of C9: top_k = 0 and one chunk returned
RerankZeroReturnsOne ==
    /\ query.op = "rerank"
    /\ query.top_k = 0
    /\ Len(result) = 1

\* what holds of the result for every input: no key twice, every chunk a
\* candidate, at most max(1, top_k) chunks
RerankNoDuplicateKey ==
    query.op = "rerank" =>
        /\ Cardinality(KeysOf(result)) = Len(result)
        /\ Range(result) \subseteq Range(query.chunks)
        /\ Len(result) <= Max2(1, query.top_k)

RankedPool == RankedChunks(query.question, query.chunks, query.top_k, query.profile_bonus)

HasManual(pool) == \E i \in 1..Len(pool) : is_manual_source(ChunkSource(pool[i]))

HasDoc(pool) == \E i \in 1..Len(pool) : is_high_level_source(ChunkSource(pool[i]))

\* C10: for a broad question with a non-empty ranked pool the first result is
\* a chunk of a manual if the pool has one, otherwise a chunk of a documentation
\* source (not a code file) if the pool has one, whatever the similarities of
\* the code files.
C10_BroadFirstResultTier ==
    (query.op = "rerank" /\ is_broad_query(query.question)) =>
        LET pool == RankedPool
        IN pool # <<>> =>
              /\ result # <<>>
              /\ result[1] \in Range(pool)
              /\ HasManual(pool) => is_manual_source(ChunkSource(result[1]))
              /\ (~HasManual(pool) /\ HasDoc(pool)) =>
                     /\ is_high_level_source(ChunkSource(result[1]))
                     /\ ~\E suffix \in CODE_SUFFIXES :
                            EndsWith(Lower(ChunkSource(result[1])), suffix)

\* C10 witness: broad question, top_k = 1, README.md is the result although
\* a.py is a candidate with a higher similarity
C10_Witness ==
    /\ query.op = "rerank"
    /\ is_broad_query(query.question)
    /\ query.top_k = 1
    /\ Len(result) = 1
    /\ ChunkSource(result[1]) = SrcReadme
    /\ \E i \in 1..Len(query.chunks) :
          /\ ChunkSource(query.chunks[i]) = SrcCode
          /\ query.chunks[i].similarity > result[1].similarity

\* the question names a.py and a candidate is a chunk of a.py
NamesCandidateFile ==
    /\ QHint \in extract_file_hints(query.question)
    /\ \E i \in 1..Len(query.chunks) : Contains(Lower(ChunkSource(query.chunks[i])), QHint)

\* C13 (as stated): when the question names a file and a candidate's source
\* contains that name, a chunk of the named file is returned first, whatever
\* its tier and whatever the similarities of the other candidates.
C13_NamedFileFirst ==
    (query.op = "rerank" /\ query.top_k >= 1 /\ NamesCandidateFile) =>
        /\ result # <<>>
        /\ Contains(Lower(ChunkSource(result[1])), QHint)

\* the failing case of C13: a broad question names a.py, a.py is the most
\* similar candidate, and README.md is returned first
NamedFileBehindDocTier ==
    /\ query.op = "rerank"
    /\ query.question = QBroadHint
    /\ query.top_k = 1
    /\ \E i \in 1..Len(query.chunks) :
          /\ ChunkSource(query.chunks[i]) = SrcCode
          /\ \A j \in 1..Len(query.chunks) :
                query.chunks[j].similarity <= query.chunks[i].similarity
    /\ result # <<>>
    /\ ChunkSource(result[1]) = SrcReadme

\* what the file hint does give in the model: for a question that is not
\* broad, a chunk of the named file is returned first
NamedFileFirstWhenNarrow ==
    (query.op = "rerank" /\ query.top_k >= 1 /\ NamesCandidateFile
        /\ ~is_broad_query(query.question)) =>
        /\ result # <<>>
        /\ Contains(Lower(ChunkSource(result[1])), QHint)

\* ---------------------------------------------------------------------------
\* Reranking of sources that differ by letter case only (SpecDiverse)
\* ---------------------------------------------------------------------------
SrcReadmeLower == <<"r", "e", "a", "d", "m", "e", ".", "m", "d">>

\* two chunks of README.md, one of readme.md, a code file and a cache file
DiversePool ==
    {Cand(SrcReadme, 0, 60), Cand(SrcReadme, 1, 50), Cand(SrcReadmeLower, 0, 40),
     Cand(SrcCode, 0, 55), Cand(SrcCache, 0, 95)}

DiverseLists ==
    UNION {{f \in [1..n -> DiversePool] : \A i, j \in 1..n : f[i] = f[j] => i = j} :
              n \in 0..MaxCand}

InitDiverse ==
    /\ backend = "sqlite"
    /\ dimension = NoDim
    /\ indexMeta = [c \in Collections |-> <<>>]
    /\ documents = {}
    /\ chunks = <<>>
    /\ nextDocId = 1
    /\ repoFiles = {}
    /\ fs = [p \in Range(WalkOrder) |-> Missing]
    /\ run = IdleRun
    /\ ret = [op |-> "none"]
    /\ \E q \in {QPlain, QBroad}, cl \in DiverseLists, k \in 0..MaxTopK :
          query = [op |-> "rerank_call", question |-> q, chunks |-> cl, top_k |-> k,
                   profile_bonus |-> 0]
    /\ result = <<>>

SpecDiverse == InitDiverse /\ [][NextRerank]_vars

SourcesOf(s) == {ChunkSource(s[i]) : i \in 1..Len(s)}

\* the sources of s, letter case ignored
SourcesNoCaseOf(s) == {Lower(ChunkSource(s[i])) : i \in 1..Len(s)}

\* C12 (as stated): when the ranked pool holds at least top_k distinct source
\* paths, no two returned chunks share a source path.
C12_NoSharedSourcePath ==
    query.op = "rerank" =>
        (Cardinality(SourcesOf(RankedPool)) >= query.top_k =>
            \A i, j \in 1..Len(result) :
               ChunkSource(result[i]) = ChunkSource(result[j]) => i = j)

\* C12 (amended): sources are compared without regard to letter case: when
\* the ranked pool holds at least top_k sources that differ by more than case,
\* no two returned chunks have sources equal up to case; two such chunks are
\* returned only when the pool's sources cannot fill top_k, and then every
\* source of the pool is represented in the result.
C12_DiverseUpToCase ==
    query.op = "rerank" =>
        LET pool == RankedPool
        IN /\ Cardinality(SourcesNoCaseOf(pool)) >= query.top_k =>
                 \A i, j \in 1..Len(result) :
                    Lower(ChunkSource(result[i])) = Lower(ChunkSource(result[j])) => i = j
           /\ Cardinality(SourcesNoCaseOf(result)) < Len(result) =>
                 /\ Cardinality(SourcesNoCaseOf(pool)) < query.top_k
                 /\ SourcesNoCaseOf(result) = SourcesNoCaseOf(pool)

\* C12 witness: the two best candidates of the pool are chunks of one file and
\* two chunks of different files are returned
C12_Witness ==
    /\ query.op = "rerank"
    /\ query.top_k = 2
    /\ Len(result) = 2
    /\ Len(RankedPool) >= 3
    /\ ChunkSource(RankedPool[1]) = ChunkSource(RankedPool[2])
    /\ Lower(ChunkSource(result[1])) # Lower(ChunkSource(result[2]))

\* the failing case of C12 as stated: README.md and readme.md are in the pool
\* and two chunks of README.md are returned
SharedSourceReturned ==
    /\ query.op = "rerank"
    /\ query.top_k = 2
    /\ Cardinality(SourcesOf(RankedPool)) >= 2
    /\ Len(result) = 2
    /\ ChunkSource(result[1]) = ChunkSource(result[2])

\* a candidate of a generated or cache path
IsLowValue(chunk) == ChunkSource(chunk) = SrcCache

NonLowValueCount == Cardinality({i \in 1..Len(query.chunks) : ~IsLowValue(query.chunks[i])})

\* C11: when at least top_k candidates are not low-value, no low-value
\* candidate is returned, whatever the similarities (so a returned low-value
\* candidate means fewer than top_k others exist); and a low-value candidate
\* is ranked with a penalty of 0.30: for a question without broad term, file
\* hint or ownership bonus it is returned first only if its similarity exceeds
\* that of every other candidate by 0.30 or more.
C11_LowValueOnlyAsFallback ==
    query.op = "rerank" =>
        /\ NonLowValueCount >= query.top_k =>
              \A i \in 1..Len(result) : ~IsLowValue(result[i])
        /\ (query.question = QPlain /\ query.profile_bonus = 0 /\ result # <<>>
               /\ IsLowValue(result[1])) =>
              \A i \in 1..Len(query.chunks) :
                 ~IsLowValue(query.chunks[i]) =>
                    query.chunks[i].similarity <= result[1].similarity - 30

\* C11 witness: a cache file has the best penalised score of the candidates,
\* enough other candidates exist, and top_k chunks without it are returned
C11_Witness ==
    /\ query.op = "rerank"
    /\ query.top_k >= 1
    /\ Len(result) = query.top_k
    /\ \A i \in 1..Len(result) : ~IsLowValue(result[i])
    /\ \E i \in 1..Len(query.chunks) :
          /\ IsLowValue(query.chunks[i])
          /\ query.chunks[i].similarity - 30 > result[1].similarity

\* the fallback of C11: fewer than top_k other candidates, the cache file is
\* returned behind a candidate of lower similarity
LowValueFallbackPenalised ==
    /\ query.op = "rerank"
    /\ Len(result) = 2
    /\ ~IsLowValue(result[1])
    /\ IsLowValue(result[2])
    /\ result[2].similarity > result[1].similarity

\* the documentation tier of the broad-question ordering: the manual and the
\* high-level sources, everything else is the code tier
IsDocTier(chunk) ==
    \/ is_manual_source(ChunkSource(chunk))
    \/ is_high_level_source(ChunkSource(chunk))

DocTierCount(pool) == Cardinality({i \in 1..Len(pool) : IsDocTier(pool[i])})

\* C22 (as stated): for a broad question, when the documentation tier of the
\* ranked pool alone holds at least top_k candidates every returned chunk is
\* of the documentation tier; otherwise every documentation-tier chunk of the
\* result comes before every code-tier chunk of the result.
C22_DocTierExclusive ==
    (query.op = "rerank" /\ is_broad_query(query.question)) =>
        IF DocTierCount(RankedPool) >= query.top_k
        THEN \A i \in 1..Len(result) : IsDocTier(result[i])
        ELSE \A i, j \in 1..Len(result) :
                (IsDocTier(result[i]) /\ ~IsDocTier(result[j])) => i < j

\* the failing case of C22: two chunks of README.md and a code chunk, top_k = 2:
\* the second README.md chunk is passed over for the code chunk
CodeChunkAlthoughDocsFillTopK ==
    /\ query.op = "rerank"
    /\ is_broad_query(query.question)
    /\ query.top_k = 2
    /\ DocTierCount(RankedPool) >= 2
    /\ Len(result) = 2
    /\ IsDocTier(result[1])
    /\ ~IsDocTier(result[2])

\* what the tiering does give for a broad question: the sources of the result
\* are taken in tier order, so a code-tier chunk is returned only when fewer
\* than max(1, top_k) documentation sources (compared without case) are in
\* the pool,
\* and the first chunk of every documentation source comes before it
DocSourcesBeforeCode ==
    (query.op = "rerank" /\ is_broad_query(query.question)) =>
        LET pool == RankedPool
            docs == SelectSeq(pool, IsDocTier)
        IN (\E j \in 1..Len(result) : ~IsDocTier(result[j])) =>
              /\ Cardinality(SourcesNoCaseOf(docs)) < Max2(1, query.top_k)
              /\ \A s \in SourcesNoCaseOf(docs) :
                    \E i \in 1..Len(result) :
                       /\ IsDocTier(result[i])
                       /\ Lower(ChunkSource(result[i])) = s
                       /\ \A j \in 1..Len(result) : ~IsDocTier(result[j]) => i < j

\* ------------------------------------------------------------------------
\* The index version of a run (SpecMeta): the runs of Spec, and while a run
\* is in its file loop a run of another process, configured with another
\* chunk size, writes its index metadata for the same collection
\* ------------------------------------------------------------------------
OtherRunWritesMetadata(chunk_size) ==
    /\ run.pc = "files"
    /\ chunk_size # run.chunk_size
    /\ \E payload \in {IndexMetadataPayload(run.collection, BuildIndexMetadata(chunk_size))} :
          /\ indexMeta[run.collection] # payload
          /\ indexMeta' = [indexMeta EXCEPT ![run.collection] = payload]
    /\ UNCHANGED <<repoFiles, backend, dimension, documents, chunks, nextDocId, fs, run, ret,
                   query, result>>

NextMeta == Next \/ \E cs \in ChunkSizes : OtherRunWritesMetadata(cs)

SpecMeta == Init /\ [][NextMeta]_vars

\* a step of the run
RunStep == run' # run

\* the documents a file step wrote: inserted, or rewritten in place
WrittenByStep == documents' \ documents

\* C24: a run with eligible files that passes the dimension check writes the
\* index metadata of its settings in one step, between the dimension check
\* and the file loop, and in no other step; the version it got back stays the
\* version of the run for all its files: a file is skipped exactly when a
\* document with its hash has that version, and every document a file step
\* writes carries it, whatever index metadata is stored for the collection at
\* that moment.
C24_VersionFixedForRun ==
    [][RunStep =>
          /\ run'.pc = "meta" => run.pc = "validate"
          /\ run.pc = "validate" => (run'.pc \in {"meta", "raised"} /\ indexMeta' = indexMeta)
          /\ run.pc = "meta" =>
                /\ run'.pc = "files"
                /\ indexMeta'[run.collection] =
                      IndexMetadataPayload(run.collection, BuildIndexMetadata(run.chunk_size))
                /\ run'.index_version = VersionOf(run.chunk_size)
          /\ run.pc = "files" =>
                /\ run'.pc \in {"files", "done"}
                /\ indexMeta' = indexMeta
                /\ run.index_version = VersionOf(run.chunk_size)
                /\ run'.index_version = run.index_version
                /\ \A d \in WrittenByStep : d.index_version = run.index_version
                /\ CurrentHasText =>
                      ((run'.stats.skipped_docs = run.stats.skipped_docs + 1)
                          <=> (StoredSameHashAndVersion # {}))
          /\ (run'.pc = "files" /\ run.pc # "files") => run.pc = "meta"
    ]_vars

\* C24 witness: the run is over, it indexed a file under the version of its
\* own settings, and the metadata stored for the collection is that of the
\* other run
C24_Witness ==
    /\ run.pc = "done"
    /\ run.stats.indexed_docs >= 1
    /\ indexMeta[run.collection] # <<>>
    /\ indexMeta[run.collection].index_version # run.index_version
    /\ \E d \in documents : /\ d.collection = run.collection
                            /\ d.index_version = run.index_version
    /\ \A d \in documents : d.index_version # indexMeta[run.collection].index_version

\* ------------------------------------------------------------------------
\* The documents of a path whose content changed (specification Spec)
\* ------------------------------------------------------------------------
\* the documents stored for the path of this step under another content hash
StoredOtherContent ==
    {d \in documents : /\ d.s3_key = CurrentPath
                       /\ d.collection = run.collection
                       /\ d.sha256 # compute_sha256(CurrentText)}

FileIndexed == run'.stats.indexed_docs = run.stats.indexed_docs + 1

\* the rows of a search after the step that asks for every row of the
\* collection hold every chunk of document d as it was before the step
StillFound(d) ==
    \A c \in Range(ChunksOfDoc(chunks, d.id)) :
       \A rows \in search_vectors(backend', documents', chunks', c.embedding,
                                  run.collection, Len(chunks')) :
          \E i \in 1..Len(rows) : /\ rows[i].s3_key = d.s3_key
                                  /\ rows[i].content = c.content
                                  /\ rows[i].chunk_index = c.chunk_index

\* C28: no step of the file loop removes or rewrites a document stored under
\* another content hash than that of the file of the step, or a chunk of such
\* a document; a file that is indexed while its path is stored under its
\* previous content gets a new document under the new hash, the path then has
\* (at least) two documents, and the chunks of the previous content are still
\* returned by search.
C28_OldContentKept ==
    [][(FileStep /\ CurrentHasText) =>
          /\ \A d \in documents :
                d.sha256 # compute_sha256(CurrentText) =>
                   /\ d \in documents'
                   /\ ChunksOfDoc(chunks', d.id) = ChunksOfDoc(chunks, d.id)
          /\ (FileIndexed /\ StoredSameHash = {} /\ StoredOtherContent # {}) =>
                /\ \E d \in documents' \ documents :
                      /\ d.s3_key = CurrentPath
                      /\ d.collection = run.collection
                      /\ d.sha256 = compute_sha256(CurrentText)
                /\ Cardinality({d \in documents' : /\ d.s3_key = CurrentPath
                                                   /\ d.collection = run.collection}) >= 2
                /\ \A d \in StoredOtherContent : StillFound(d)
    ]_vars

\* C28 witness: a run has finished, the path a.md has a document for either
\* content, and both documents have their chunks
C28_Witness ==
    /\ run.pc = "done"
    /\ run.stats.indexed_docs = 1
    /\ \E d1, d2 \in documents :
          /\ d1.s3_key = PathMd /\ d2.s3_key = PathMd
          /\ d1.collection = d2.collection
          /\ d1.sha256 = ShaA /\ d2.sha256 = ShaB
          /\ ChunksOfDoc(chunks, d1.id) # <<>>
          /\ ChunksOfDoc(chunks, d2.id) # <<>>

\* ------------------------------------------------------------------------
\* Retrieval and lazy on-demand embedding (api/app/retriever.py,
\* api/app/repo_onboarding.py), with providers of several dimensions
\* ------------------------------------------------------------------------
TreeCollection(collection) ==
    IF collection = "default" THEN "default_tree" ELSE "other_tree"

\* a file of the repository with nothing but white space in it
PathEmpty == <<"c", ".", "p", "y">>

\* the content GitHub serves for a path of the lazily onboarded repository
RemoteContent(path) ==
    IF path = PathMd THEN TextB ELSE IF path = PathEmpty THEN TextBlank ELSE TextA

\* get_repo_meta(...) is not None
has_repo_meta(rf, collection) == \E r \in rf : r.collection = collection

get_unembedded_files(rf, collection, paths) ==
    SelectSeq(paths, LAMBDA p : \E r \in rf : /\ r.collection = collection
                                              /\ r.file_path = p
                                              /\ ~r.embedded)

\* variant: the embedded flag is never set
mark_files_embedded_never(rf, collection, paths) == rf

\* variant: every row of the collection is marked
mark_files_embedded_all(rf, collection, paths) ==
    {IF r.collection = collection THEN [r EXCEPT !.embedded = TRUE] ELSE r : r \in rf}

mark_files_embedded(rf, collection, paths) ==
    {IF r.collection = collection /\ r.file_path \in Range(paths)
     THEN [r EXCEPT !.embedded = TRUE] ELSE r : r \in rf}

\* variant: the upsert writes the row anew, the flag falls back to its default
upsert_file_tree_resets_flag(rf, collection, files, file_sha) ==
    {r \in rf : ~(r.collection = collection /\ r.file_path \in Range(files))}
        \cup {[collection |-> collection, file_path |-> p, file_sha |-> file_sha,
                embedded |-> FALSE] : p \in Range(files)}

\* INSERT ... ON CONFLICT (collection, file_path) DO UPDATE SET file_sha, ...:
\* the embedded flag of a row that exists is kept; file_sha stands for the
\* blob hashes of the tree that was fetched
upsert_file_tree(rf, collection, files, file_sha) ==
    {IF r.collection = collection /\ r.file_path \in Range(files)
     THEN [r EXCEPT !.file_sha = file_sha] ELSE r : r \in rf}
        \cup {[collection |-> collection, file_path |-> p, file_sha |-> file_sha,
                embedded |-> FALSE] :
                  p \in {q \in Range(files) :
                            ~\E r \in rf : r.collection = collection /\ r.file_path = q}}

\* settings.chunk_size of the API process
LazyChunkSize == 2

\* one iteration of the loop of embed_files_on_demand
EmbedOne(st, path, env) ==
    LET Records(cks) ==
            [i \in 1..Len(cks) |->
                [chunk_index |-> cks[i].chunk_index, content |-> cks[i].content,
                 embedding |-> Embed(env.dim, cks[i].content),
                 token_count |-> cks[i].token_count,
                 source_file |-> cks[i].source_file,
                 line_start |-> cks[i].line_start, line_end |-> cks[i].line_end]]
        Store(up, uc) ==
            [documents |-> up.documents, chunks |-> uc.chunks, nextDocId |-> up.nextDocId,
             embedded_paths |-> Append(st.embedded_paths, path)]
        Index(text, cks) ==
            IF cks = <<>>
            THEN st
            ELSE With(upsert_document(st.documents, st.nextDocId, path,
                                      compute_sha256(text), env.collection, NoVersion),
                      LAMBDA up : With(upsert_chunks(up.documents, st.chunks, up.id,
                                                     Records(cks)),
                                       LAMBDA uc : Store(up, uc)))
    IN With(normalize_text(RemoteContent(path)),
            LAMBDA text : IF text = <<>>
                          THEN st
                          ELSE With(chunk_text(text, env.chunk_size, ChunkOverlap, path),
                                    LAMBDA cks : Index(text, cks)))

\* the loop of embed_files_on_demand over the fetched contents
RECURSIVE EmbedContents(_, _, _)
EmbedContents(st, contents, env) ==
    IF contents = <<>>
    THEN st
    ELSE With(EmbedOne(st, Head(contents), env),
              LAMBDA next : EmbedContents(next, Tail(contents), env))

\* embed_files_on_demand: st is the store, fetched the paths GitHub answers for
embed_files_on_demand(be, st, collection, paths, fetched, provider_dimension) ==
    LET same == [documents |-> st.documents, chunks |-> st.chunks,
                 nextDocId |-> st.nextDocId, repoFiles |-> st.repoFiles,
                 dimension |-> st.dimension, error |-> FALSE, validated |-> FALSE,
                 embedded_count |-> 0]
        contents == SelectSeq(get_unembedded_files(st.repoFiles, collection, paths),
                              LAMBDA p : p \in fetched)
        Embedded(v, done) ==
            [documents |-> done.documents, chunks |-> done.chunks,
             nextDocId |-> done.nextDocId,
             repoFiles |-> mark_files_embedded(st.repoFiles, collection,
                                               done.embedded_paths),
             dimension |-> v.dimension, error |-> FALSE, validated |-> TRUE,
             embedded_count |-> Len(done.embedded_paths)]
        Validated(v) ==
            IF v.error
            THEN [same EXCEPT !.error = TRUE, !.validated = TRUE]
            ELSE With(EmbedContents([documents |-> st.documents, chunks |-> st.chunks,
                                     nextDocId |-> st.nextDocId, embedded_paths |-> <<>>],
                                    contents,
                                    [collection |-> collection, dim |-> provider_dimension,
                                     chunk_size |-> LazyChunkSize]),
                      LAMBDA done : Embedded(v, done))
    IN IF ~has_repo_meta(st.repoFiles, collection) \/ contents = <<>>
       THEN same
       ELSE With(validate_embedding_dimension(be, st.dimension, provider_dimension),
                 LAMBDA v : Validated(v))

\* search_vectors, then rerank_query_chunks: the outcomes
SearchAndRerank(be, docs, ch, query_embedding, question, collection, top_k) ==
    {rerank_query_chunks(question, raw, top_k, 0) :
        raw \in search_vectors(be, docs, ch, query_embedding, collection,
                               Max2(top_k * 6, top_k))}

\* retrieve: the outcomes (several when Postgres may order ties either way)
retrieve(be, docs, ch, dim, question, collection, top_k, provider_dimension) ==
    UNION {IF v.error
           THEN {[dimension |-> dim, error |-> TRUE, result |-> <<>>]}
           ELSE {[dimension |-> v.dimension, error |-> FALSE, result |-> r] :
                   r \in SearchAndRerank(be, docs, ch, Embed(provider_dimension, question),
                                         question, collection, top_k)} :
             v \in {validate_embedding_dimension(be, dim, provider_dimension)}}

RECURSIVE Dedupe(_)
Dedupe(s) ==
    IF s = <<>>
    THEN <<>>
    ELSE With(Dedupe(SubSeq(s, 1, Len(s) - 1)),
              LAMBDA rest : IF s[Len(s)] \in Range(rest) THEN rest
                            ELSE Append(rest, s[Len(s)]))

\* variant: the path-only hits are never used as context
ContextChunks_content_only(raw_results, tree_results) == raw_results

\* the chunks retrieve_lazy reranks: the content hits, the path-only hits when
\* the content search returned nothing
ContextChunks(raw_results, tree_results) ==
    IF raw_results = <<>> THEN tree_results ELSE raw_results

\* stages 2 and 3 of retrieve_lazy for one list of tree results
LazyStages(be, st, question, collection, top_k, provider_dimension, fetched, tree_results) ==
    LET After(e) ==
            IF e.error
            THEN {[documents |-> e.documents, chunks |-> e.chunks,
                   nextDocId |-> e.nextDocId, repoFiles |-> e.repoFiles,
                   dimension |-> e.dimension, error |-> TRUE, result |-> <<>>]}
            ELSE {[documents |-> e.documents, chunks |-> e.chunks,
                   nextDocId |-> e.nextDocId, repoFiles |-> e.repoFiles,
                   dimension |-> e.dimension, error |-> FALSE,
                   result |-> rerank_query_chunks(question,
                                                  ContextChunks(raw, tree_results),
                                                  top_k, 0)] :
                     raw \in search_vectors(be, e.documents, e.chunks,
                                            Embed(provider_dimension, question),
                                            collection, Max2(top_k * 6, top_k))}
    IN UNION {After(e) :
                e \in {embed_files_on_demand(
                          be, st, collection,
                          Dedupe([i \in 1..Len(tree_results) |->
                                     tree_results[i].source_file] \o <<>>),
                          fetched, provider_dimension)}}

\* retrieve_lazy: the outcomes, each with the store it leaves
retrieve_lazy(be, st, question, collection, top_k, provider_dimension, fetched) ==
    LET same == [documents |-> st.documents, chunks |-> st.chunks,
                 nextDocId |-> st.nextDocId, repoFiles |-> st.repoFiles]
        Stage1(v) ==
            IF v.error
            THEN {same @@ [dimension |-> st.dimension, error |-> TRUE, result |-> <<>>]}
            ELSE UNION {IF t = <<>>
                        THEN {same @@ r :
                                r \in retrieve(be, st.documents, st.chunks, v.dimension,
                                               question, collection, top_k,
                                               provider_dimension)}
                        ELSE LazyStages(be, [st EXCEPT !.dimension = v.dimension],
                                        question, collection, top_k, provider_dimension,
                                        fetched, t) :
                          t \in search_vectors(be, st.documents, st.chunks,
                                               Embed(provider_dimension, question),
                                               TreeCollection(collection),
                                               Max2(top_k * 3, 15))}
    IN UNION {Stage1(v) :
                v \in {validate_embedding_dimension(be, st.dimension, provider_dimension)}}

StoreState ==
    [documents |-> documents, chunks |-> chunks, nextDocId |-> nextDocId,
     repoFiles |-> repoFiles, dimension |-> dimension]

MismatchError(failed) == IF failed THEN "dimension_mismatch" ELSE "none"

LazyQuestion == QPlain

LazyPaths == <<PathPy>>

\* retrieve(question, provider, collection, top_k) between two operations
Retrieve(provider_dimension, top_k) ==
    /\ NoRunInProgress
    /\ \E r \in retrieve(backend, documents, chunks, dimension, LazyQuestion, "default",
                         top_k, provider_dimension) :
          /\ dimension' = r.dimension
          /\ ret' = [op |-> "retrieve", error |-> MismatchError(r.error),
                     chunks |-> r.result]
    /\ UNCHANGED <<backend, indexMeta, documents, chunks, nextDocId, repoFiles, fs, run,
                   query, result>>

\* retrieve_lazy between two operations; fetched: the paths GitHub answers for
RetrieveLazyUpTo(provider_dimension, top_k, fetched, max_id) ==
    /\ NoRunInProgress
    /\ \E r \in retrieve_lazy(backend, StoreState, LazyQuestion, "default", top_k,
                              provider_dimension, fetched) :
          /\ r.nextDocId <= max_id + 1
          /\ documents' = r.documents
          /\ chunks' = r.chunks
          /\ nextDocId' = r.nextDocId
          /\ repoFiles' = r.repoFiles
          /\ dimension' = r.dimension
          /\ ret' = [op |-> "retrieve_lazy", error |-> MismatchError(r.error),
                     chunks |-> r.result, top_k |-> top_k, fetched |-> fetched,
                     dim |-> provider_dimension]
    /\ UNCHANGED <<backend, indexMeta, fs, run, query, result>>

RetrieveLazy(provider_dimension, top_k, fetched) ==
    RetrieveLazyUpTo(provider_dimension, top_k, fetched, MaxDocId)

\* embed_files_on_demand called on its own
EmbedOnDemand(provider_dimension, fetched) ==
    /\ NoRunInProgress
    /\ \E e \in {embed_files_on_demand(backend, StoreState, "default", LazyPaths, fetched,
                                        provider_dimension)} :
          /\ e.nextDocId <= MaxDocId + 1
          /\ documents' = e.documents
          /\ chunks' = e.chunks
          /\ nextDocId' = e.nextDocId
          /\ repoFiles' = e.repoFiles
          /\ dimension' = e.dimension
          /\ ret' = [op |-> "embed_on_demand", error |-> MismatchError(e.error),
                     validated |-> e.validated, embedded_count |-> e.embedded_count]
    /\ UNCHANGED <<backend, indexMeta, fs, run, query, result>>

\* onboard_github_repo_lazy (a Postgres deployment: it calls core.database):
\* the tree collection is purged, then the dimension is validated, then the
\* paths are embedded as the chunks of one tree document and listed in repo_files
LazyOnboardTree(provider_dimension, files, file_sha, max_id) ==
    /\ NoRunInProgress
    /\ backend = "postgres"
    /\ \E p \in {purge_collection_documents(documents, chunks, TreeCollection("default"))},
          v \in {validate_embedding_dimension(backend, dimension, provider_dimension)} :
          IF v.error
          THEN /\ documents' = p.documents
               /\ chunks' = p.chunks
               /\ ret' = [op |-> "lazy_onboard", error |-> "dimension_mismatch"]
               /\ UNCHANGED <<nextDocId, repoFiles>>
          ELSE \E up \in {upsert_document(p.documents, nextDocId, <<"tree">>,
                                          compute_sha256(files),
                                          TreeCollection("default"), NoVersion)} :
                  /\ up.nextDocId <= max_id + 1
                  /\ documents' = up.documents
                  /\ chunks' = upsert_chunks(
                                   up.documents, p.chunks, up.id,
                                   [i \in 1..Len(files) |->
                                       [chunk_index |-> i - 1, content |-> files[i],
                                        embedding |-> Embed(provider_dimension, files[i]),
                                        token_count |-> 1, source_file |-> files[i],
                                        line_start |-> 0, line_end |-> 0]]).chunks
                  /\ nextDocId' = up.nextDocId
                  /\ repoFiles' = upsert_file_tree(repoFiles, "default", files, file_sha)
                  /\ ret' = [op |-> "lazy_onboard", error |-> "none"]
    /\ UNCHANGED <<backend, dimension, indexMeta, fs, run, query, result>>

\* the revisions of the repository tree: every file has another blob hash in
\* the second
Revisions == {"r1", "r2"}

LazyOnboardFiles(provider_dimension, files, max_id) ==
    LazyOnboardTree(provider_dimension, files, "r1", max_id)

LazyOnboard(provider_dimension) == LazyOnboardFiles(provider_dimension, LazyPaths, MaxDocId)

MigrateDims == Dims \cup {0, -1}

InitDim ==
    /\ backend \in {"sqlite", "postgres"}
    /\ dimension \in IF backend = "sqlite" THEN {NoDim} ELSE {2}
    /\ indexMeta = [c \in Collections |-> <<>>]
    /\ documents = {}
    /\ chunks = <<>>
    /\ nextDocId = 1
    /\ repoFiles = {}
    /\ fs = [p \in Range(WalkOrder) |-> IF p = PathMd THEN TextA ELSE Missing]
    /\ run = IdleRun
    /\ ret = [op |-> "none"]
    /\ query = EmptyQuery
    /\ result = <<>>

NextDim ==
    \/ \E d \in Dims : StartRun("default", d, 1)
    \/ RunValidate
    \/ RunIndexMetadata
    \/ \E ok \in BOOLEAN : IngestFile(ok)
    \/ \E c \in {Missing, TextA} : EditFile(PathMd, c)
    \/ \E n \in MigrateDims : Migrate(n)
    \/ \E d \in Dims : Retrieve(d, 1)
    \/ \E d \in Dims, f \in SUBSET Range(LazyPaths) : RetrieveLazy(d, 1, f)
    \/ \E d \in Dims, f \in SUBSET Range(LazyPaths) : EmbedOnDemand(d, f)
    \/ \E d \in Dims : LazyOnboard(d)

SpecDim == InitDim /\ [][NextDim]_vars

\* ---------------------------------------------------------------------------
\* Properties of the embedding dimension (SpecDim)
\* ---------------------------------------------------------------------------

\* every stored vector has the recorded dimension
StoredVectorsMatch ==
    \A i \in 1..Len(chunks) : Len(chunks[i].embedding) = dimension

\* the provider's dimension d disagrees with the recorded one
Mismatch(d) == dimension # NoDim /\ dimension # d

StoreUntouched == UNCHANGED <<dimension, indexMeta, documents, chunks, nextDocId, repoFiles>>

\* embed_files_on_demand has contents to embed: the collection is lazily
\* onboarded and GitHub answers for a requested path that is not embedded yet
HasContentsToEmbed(fetched) ==
    \E r \in repoFiles : /\ r.collection = "default"
                         /\ r.file_path \in Range(LazyPaths) \cap fetched
                         /\ ~r.embedded

\* the first validation of a store without a recorded dimension records d
FirstValidateRecords ==
    /\ dimension = NoDim /\ RunValidate => dimension' = run.dim
    /\ \A d \in Dims :
          /\ IsOp("retrieve") /\ dimension = NoDim /\ Retrieve(d, 1) => dimension' = d
          /\ \A f \in SUBSET Range(LazyPaths) :
                IsOp("retrieve_lazy") /\ dimension = NoDim /\ RetrieveLazy(d, 1, f) =>
                   dimension' = d

\* an ingestion run, a retrieval or a lazy retrieval made with a differing
\* dimension raises the mismatch and leaves the store as it was
MismatchRejected ==
    /\ Mismatch(run.dim) /\ RunValidate =>
          /\ run'.pc = "raised"
          /\ ret'.error = "dimension_mismatch"
          /\ StoreUntouched
    /\ \A d \in Dims :
          /\ IsOp("retrieve") /\ Mismatch(d) /\ Retrieve(d, 1) =>
                ret'.error = "dimension_mismatch" /\ StoreUntouched
          /\ \A f \in SUBSET Range(LazyPaths) :
                /\ IsOp("retrieve_lazy") /\ Mismatch(d) /\ RetrieveLazy(d, 1, f) =>
                      ret'.error = "dimension_mismatch" /\ StoreUntouched
                /\ IsOp("embed_on_demand") /\ Mismatch(d) /\ HasContentsToEmbed(f)
                      /\ EmbedOnDemand(d, f) =>
                      ret'.error = "dimension_mismatch" /\ StoreUntouched

\* an operation that finds nothing to process returns before the validation:
\* it reports no error, whatever the provider's dimension, and writes nothing
EarlyReturnWritesNothing ==
    \A d \in Dims :
       /\ IsOp("ingest") /\ collect_ingest_files(fs) = <<>> /\ StartRun("default", d, 1) =>
             run'.pc = "done" /\ ret'.error = "none" /\ StoreUntouched
       /\ \A f \in SUBSET Range(LazyPaths) :
             IsOp("embed_on_demand") /\ ~HasContentsToEmbed(f) /\ EmbedOnDemand(d, f) =>
                ret'.error = "none" /\ ~ret'.validated /\ StoreUntouched

\* lazy onboarding with a differing dimension raises the mismatch after the
\* purge of the tree collection: rows are removed, none is written
LazyOnboardMismatch ==
    \A d \in Dims :
       IsOp("lazy_onboard") /\ Mismatch(d) /\ LazyOnboard(d) =>
          /\ ret'.error = "dimension_mismatch"
          /\ documents' = {x \in documents : x.collection # TreeCollection("default")}
          /\ Range(chunks') \subseteq Range(chunks)
          /\ UNCHANGED <<dimension, indexMeta, nextDocId, repoFiles>>

\* the recorded dimension changes only when it is first recorded or migrated,
\* and a provider of the recorded dimension is never refused
DimensionStable ==
    /\ dimension' # dimension => dimension = NoDim \/ ret'.op = "migrate"
    /\ run.dim = dimension /\ RunValidate => run'.pc = "meta"
    /\ \A d \in Dims :
          IsOp("retrieve") /\ d = dimension /\ Retrieve(d, 1) => ret'.error = "none"

C6_Migrate ==
    [][\A n \in MigrateDims :
          IsOp("migrate") /\ Migrate(n) =>
             IF n <= 0
             THEN ret'.error /\ StoreUntouched
             ELSE IF n = dimension
             THEN /\ ~ret'.error /\ ~ret'.changed
                  /\ ret'.documents_deleted = 0 /\ ret'.chunks_deleted = 0
                  /\ StoreUntouched
             ELSE /\ ~ret'.error /\ ret'.changed
                  /\ documents' = {} /\ chunks' = <<>>
                  /\ ret'.documents_deleted = Cardinality(documents)
                  /\ ret'.chunks_deleted = Len(chunks)
                  /\ dimension' = n
                  /\ \A d \in Dims :
                        validate_embedding_dimension(backend, dimension', d).error
                           <=> d # n]_vars

\* a migration to another dimension has deleted documents and chunks
C6_Witness ==
    /\ ret.op = "migrate"
    /\ ret.changed
    /\ ret.documents_deleted >= 1
    /\ ret.chunks_deleted >= 1
    /\ documents = {} /\ chunks = <<>>

\* ---------------------------------------------------------------------------
\* Lazy two-stage retrieval on a tree-indexed collection (SpecLazy): a Postgres
\* deployment, the repository onboarded lazily, then queried
\* ---------------------------------------------------------------------------
\* the embeddable files of the repository tree
LazyTree == <<PathMd, PathPy, PathEmpty>>

\* document ids for the tree document of two onboardings and one document
\* per file with text
MaxLazyDocId == Len(LazyTree) + 1

InitLazy ==
    /\ backend = "postgres"
    /\ dimension = 2
    /\ indexMeta = [c \in Collections |-> <<>>]
    /\ documents = {}
    /\ chunks = <<>>
    /\ nextDocId = 1
    /\ repoFiles = {}
    /\ fs = [p \in Range(WalkOrder) |-> Missing]
    /\ run = IdleRun
    /\ ret = [op |-> "none"]
    /\ query = EmptyQuery
    /\ result = <<>>

NextLazy ==
    \/ LazyOnboardFiles(2, LazyTree, MaxLazyDocId)
    \/ \E k \in 1..MaxTopK, f \in SUBSET Range(LazyTree) :
          RetrieveLazyUpTo(2, k, f, MaxLazyDocId)

SpecLazy == InitLazy /\ [][NextLazy]_vars

\* the paths the path-only search of a query returns: the tree index holds
\* fewer than max(top_k * 3, 15) paths, so every path of it is a hit
TreeHits ==
    LET rows == ChunksOfCollection(documents, chunks, TreeCollection("default"))
    IN {rows[i].source_file : i \in 1..Len(rows)}

\* the files whose content is in the content collection
ContentSources == {d.s3_key : d \in {e \in documents : e.collection = "default"}}

\* the files of the collection whose embedded flag is set
MarkedEmbedded ==
    {r.file_path : r \in {q \in repoFiles : q.collection = "default" /\ q.embedded}}

ContentIndexEmpty == ChunksOfCollection(documents, chunks, "default") = <<>>

\* the files a call embeds: tree hits not yet marked, whose fetch succeeds and
\* whose normalised text is not empty
Embeddable(fetched) ==
    {p \in TreeHits \ MarkedEmbedded :
        p \in fetched /\ normalize_text(RemoteContent(p)) # <<>>}

FetchFailureLeavesUnembedded ==
    /\ ret.op = "retrieve_lazy"
    /\ TreeHits = Range(LazyTree)
    /\ ContentSources = {PathMd}
    /\ MarkedEmbedded = {PathMd}

\* C16: retrieve_lazy degrades instead of failing. When the path-only search
\* returns nothing the call returns what single-stage retrieve returns on the
\* content collection and writes nothing (no file embedded or marked); when
\* the content search is still empty after the on-demand embedding it returns
\* the reranked path-only hits; the only error is the dimension mismatch, an
\* empty result is returned as an empty list.
C16_LazyDegrades ==
    [][IsOp("retrieve_lazy")
          => /\ ret'.error = "dimension_mismatch" <=> Mismatch(ret'.dim)
             /\ (~Mismatch(ret'.dim) /\ TreeHits = {})
                   => /\ UNCHANGED <<documents, chunks, nextDocId, repoFiles>>
                      /\ \E r \in retrieve(backend, documents, chunks, dimension,
                                            LazyQuestion, "default", ret'.top_k, ret'.dim) :
                            ~r.error /\ r.result = ret'.chunks
             /\ (~Mismatch(ret'.dim) /\ TreeHits # {} /\ ContentIndexEmpty')
                   => \E t \in search_vectors(backend, documents, chunks,
                                              Embed(ret'.dim, LazyQuestion),
                                              TreeCollection("default"),
                                              Max2(ret'.top_k * 3, 15)) :
                         ret'.chunks = rerank_query_chunks(LazyQuestion, t, ret'.top_k, 0)]_vars

\* C16 witness: the fetch of the only tree hit failed, the content index is
\* empty, and the call returned the path-only hit without error
C16_Witness ==
    /\ ret.op = "retrieve_lazy"
    /\ ret.error = "none"
    /\ ret.fetched = {}
    /\ ContentIndexEmpty
    /\ TreeHits = Range(LazyPaths)
    /\ Len(ret.chunks) = 1
    /\ ret.chunks[1].source_file = PathPy
    /\ ret.chunks[1].line_start = 0

\* no tree index: the call returned the content hits of single-stage retrieve
LazyFellBackToRetrieve ==
    /\ ret.op = "retrieve_lazy"
    /\ ret.error = "none"
    /\ TreeHits = {}
    /\ ret.chunks # <<>>
    /\ repoFiles = {}

\* no tree index and no content: the empty list, no error
LazyEmptyIsNoError ==
    /\ ret.op = "retrieve_lazy"
    /\ ret.error = "none"
    /\ documents = {}
    /\ ret.chunks = <<>>

\* ---------------------------------------------------------------------------
\* Interleaved lazy queries (SpecRace): the API serves two retrieve_lazy calls
\* at a time, each on a connection of its own; every statement of
\* embed_files_on_demand that reads or writes the store is a step.
\* query.procs holds the position and the locals of each call, result counts
\* the fetches and the upserts of every path.
\* ---------------------------------------------------------------------------
Procs == {1, 2}

\* the embeddable files of the repository the calls query
RaceTree == <<PathMd, PathPy>>

\* the queries one client sends
MaxQueries == 2

IdleCall(left) ==
    [pc |-> "idle", tree |-> <<>>, paths |-> <<>>, contents |-> <<>>,
     embedded_paths |-> <<>>, left |-> left]

InitRace ==
    /\ backend = "postgres"
    /\ dimension = 2
    /\ indexMeta = [c \in Collections |-> <<>>]
    /\ documents = {}
    /\ chunks = <<>>
    /\ nextDocId = 1
    /\ repoFiles = {}
    /\ fs = [p \in Range(WalkOrder) |-> Missing]
    /\ run = IdleRun
    /\ ret = [op |-> "none"]
    /\ query = [op |-> "lazy", procs |-> [p \in Procs |-> IdleCall(MaxQueries)]]
    /\ result = [fetched |-> [f \in Range(RaceTree) |-> 0],
                 embedded |-> [f \in Range(RaceTree) |-> 0]]

\* no call is between its first and its last statement
NoCallInFlight == \A p \in Procs : query.procs[p].pc = "idle"

\* onboard_github_repo_lazy, once, before the queries
RaceOnboard ==
    /\ repoFiles = {}
    /\ NoCallInFlight
    /\ LazyOnboardFiles(2, RaceTree, MaxLazyDocId)

\* retrieve_lazy up to get_unembedded_files: the dimension is validated, the
\* tree index searched, the paths deduplicated and their flags read
QueryStart(p) ==
    /\ query.procs[p].pc = "idle"
    /\ query.procs[p].left > 0
    /\ ~validate_embedding_dimension(backend, dimension, 2).error
    /\ \E t \in search_vectors(backend, documents, chunks, Embed(2, LazyQuestion),
                               TreeCollection("default"), Max2(3, 15)) :
          \E un \in {IF has_repo_meta(repoFiles, "default")
                      THEN get_unembedded_files(
                               repoFiles, "default",
                               Dedupe([i \in 1..Len(t) |-> t[i].source_file] \o <<>>))
                      ELSE <<>>} :
             query' = [query EXCEPT !.procs[p] =
                          [pc |-> IF t = <<>> \/ un = <<>> THEN "search" ELSE "fetch",
                           tree |-> t, paths |-> un, contents |-> <<>>,
                           embedded_paths |-> <<>>, left |-> @.left - 1]]
    /\ UNCHANGED <<backend, dimension, indexMeta, documents, chunks, nextDocId, repoFiles,
                   fs, run, ret, result>>

\* fetch_files_content: GitHub answers for the paths of fetched
QueryFetch(p, fetched) ==
    /\ query.procs[p].pc = "fetch"
    /\ \E contents \in {SelectSeq(query.procs[p].paths, LAMBDA f : f \in fetched)} :
          /\ query' = [query EXCEPT !.procs[p].pc =
                                       IF contents = <<>> THEN "search" ELSE "embed",
                                    !.procs[p].contents = contents]
          /\ result' = [result EXCEPT !.fetched =
                           [f \in Range(RaceTree) |->
                               IF f \in Range(contents) THEN @[f] + 1 ELSE @[f]]]
    /\ UNCHANGED <<backend, dimension, indexMeta, documents, chunks, nextDocId, repoFiles,
                   fs, run, ret>>

\* one iteration of the loop: the next content is normalised, chunked,
\* embedded and upserted
QueryEmbedFile(p) ==
    /\ query.procs[p].pc = "embed"
    /\ \E path \in {Head(query.procs[p].contents)} :
       \E st \in {EmbedOne([documents |-> documents, chunks |-> chunks,
                            nextDocId |-> nextDocId,
                            embedded_paths |-> query.procs[p].embedded_paths],
                           path,
                           [collection |-> "default", dim |-> 2,
                            chunk_size |-> LazyChunkSize])} :
          /\ documents' = st.documents
          /\ chunks' = st.chunks
          /\ nextDocId' = st.nextDocId
          /\ query' = [query EXCEPT !.procs[p].contents = Tail(@),
                                    !.procs[p].embedded_paths = st.embedded_paths,
                                    !.procs[p].pc =
                                       IF Len(query.procs[p].contents) = 1
                                       THEN "mark" ELSE "embed"]
          /\ result' = [result EXCEPT !.embedded[path] =
                           IF st.embedded_paths = query.procs[p].embedded_paths
                           THEN @ ELSE @ + 1]
    /\ UNCHANGED <<backend, dimension, indexMeta, repoFiles, fs, run, ret>>

\* mark_files_embedded(embedded_paths) when the list is not empty
QueryMark(p) ==
    /\ query.procs[p].pc = "mark"
    /\ repoFiles' = IF query.procs[p].embedded_paths = <<>>
                    THEN repoFiles
                    ELSE mark_files_embedded(repoFiles, "default",
                                             query.procs[p].embedded_paths)
    /\ query' = [query EXCEPT !.procs[p].pc = "search"]
    /\ UNCHANGED <<backend, dimension, indexMeta, documents, chunks, nextDocId, fs, run,
                   ret, result>>

\* the content search of retrieve_lazy (of retrieve when the tree search was
\* empty) and the rerank; the call returns
QuerySearch(p) ==
    /\ query.procs[p].pc = "search"
    /\ \E raw \in search_vectors(backend, documents, chunks, Embed(2, LazyQuestion),
                                 "default", Max2(6, 1)) :
          ret' = [op |-> "retrieve_lazy", error |-> "none", proc |-> p,
                  chunks |-> rerank_query_chunks(
                                 LazyQuestion, ContextChunks(raw, query.procs[p].tree),
                                 1, 0)]
    /\ query' = [query EXCEPT !.procs[p] = IdleCall(@.left)]
    /\ UNCHANGED <<backend, dimension, indexMeta, documents, chunks, nextDocId, repoFiles,
                   fs, run, result>>

NextRace ==
    \/ RaceOnboard
    \/ \E p \in Procs : QueryStart(p)
    \/ \E p \in Procs, f \in SUBSET Range(RaceTree) : QueryFetch(p, f)
    \/ \E p \in Procs : QueryEmbedFile(p)
    \/ \E p \in Procs : QueryMark(p)
    \/ \E p \in Procs : QuerySearch(p)

SpecRace == InitRace /\ [][NextRace]_vars

\* C15: across any number of retrieve_lazy queries, interleaved or not, the
\* content of a file path is fetched at most once and embedded and upserted
\* at most once.
C15_EmbeddedAtMostOnce ==
    query.op = "lazy" =>
        \A f \in Range(RaceTree) : result.fetched[f] <= 1 /\ result.embedded[f] <= 1

\* two calls both read the flag of a.md before either sets it, and both embed
\* and upsert the file
EmbeddedTwiceByInterleavedCalls ==
    /\ query.op = "lazy"
    /\ result.embedded[PathMd] = 2
    /\ \A p \in Procs : query.procs[p].left = MaxQueries - 1

\* the flag is set only after the upsert: a marked file has its document in
\* the content collection
MarkedAfterUpsert == query.op = "lazy" => MarkedEmbedded \subseteq ContentSources

\* ---------------------------------------------------------------------------
\* Interrupted batches (SpecBatch, SpecBatchRace): the calls of SpecRace, and
\* a call may end between the fetch and mark_files_embedded, by an exception
\* of the embedding provider or the store or by the death of the process
\* ---------------------------------------------------------------------------
\* the call ends before mark_files_embedded: what was upserted is committed,
\* the flags are not written
QueryCrash(p) ==
    /\ query.procs[p].pc \in {"embed", "mark"}
    /\ query' = [query EXCEPT !.procs[p] = IdleCall(@.left)]
    /\ ret' = [op |-> "retrieve_lazy", error |-> "exception", proc |-> p, chunks |-> <<>>]
    /\ UNCHANGED <<backend, dimension, indexMeta, documents, chunks, nextDocId, repoFiles,
                   fs, run, result>>

\* the calls of one client, one after the other
NextBatch ==
    \/ RaceOnboard
    \/ QueryStart(1)
    \/ \E f \in SUBSET Range(RaceTree) : QueryFetch(1, f)
    \/ QueryEmbedFile(1)
    \/ QueryMark(1)
    \/ QuerySearch(1)
    \/ QueryCrash(1)

SpecBatch == InitRace /\ [][NextBatch]_vars

\* the calls of two clients, interleaved
NextBatchRace == NextRace \/ \E p \in Procs : QueryCrash(p)

SpecBatchRace == InitRace /\ [][NextBatchRace]_vars

\* the paths of the call of p whose fetch failed (no file of RaceTree is blank:
\* a fetched file is waiting in contents or was embedded)
FetchFailed(p) ==
    Range(query.procs[p].paths)
        \ (Range(query.procs[p].contents) \cup Range(query.procs[p].embedded_paths))

\* the step is statement "to" of the call of p, reached from statement "from"
CallStep(p, from, to) == query.procs[p].pc = from /\ query'.procs[p].pc = to

\* C23: the flag of a file is set by mark_files_embedded only, for files the
\* call fetched, embedded and upserted, whose document is then in the content
\* collection; a file whose fetch failed is not marked by the call while the
\* files that were fetched are embedded and marked and the call goes on to its
\* search; a call that ends before mark_files_embedded writes no flag; and
\* the next call takes up every tree hit that is not marked.
C23_MarkedOnlyAfterUpsert ==
    /\ [](query.op = "lazy" => MarkedEmbedded \subseteq ContentSources)
    /\ [][\A p \in Procs :
             /\ CallStep(p, "mark", "search") =>
                   /\ query.procs[p].contents = <<>>
                   /\ MarkedEmbedded' =
                         MarkedEmbedded \cup Range(query.procs[p].embedded_paths)
                   /\ Range(query.procs[p].embedded_paths) \subseteq ContentSources
                   /\ Range(query.procs[p].embedded_paths) =
                         Range(query.procs[p].paths) \ FetchFailed(p)
                   /\ (FetchFailed(p) \cap MarkedEmbedded') \subseteq MarkedEmbedded
             /\ (\E from \in {"fetch", "embed", "mark"} : CallStep(p, from, "idle")) =>
                   /\ MarkedEmbedded' = MarkedEmbedded
                   /\ ret'.error = "exception"
             /\ CallStep(p, "search", "idle") => ret'.error = "none"
             /\ (query.procs[p].pc = "idle" /\ query'.procs[p].pc # "idle") =>
                   Range(query'.procs[p].paths) = TreeHits \ MarkedEmbedded
       ]_vars
    /\ [][MarkedEmbedded' # MarkedEmbedded =>
             \E p \in Procs : CallStep(p, "mark", "search")]_vars

\* C23 witness: the first call ended by an exception after it had upserted
\* a.md, the fetch of b.py failed in the second call, which embedded a.md
\* again and marked it; b.py is still unembedded, the call returned
C23_Witness ==
    /\ query.op = "lazy"
    /\ NoCallInFlight
    /\ query.procs[1].left = MaxQueries - 2
    /\ ret.op = "retrieve_lazy"
    /\ ret.error = "none"
    /\ result.embedded[PathMd] = 2
    /\ result.fetched[PathPy] = 0
    /\ MarkedEmbedded = {PathMd}

\* ---------------------------------------------------------------------------
\* The embedded flag over the life of a lazily onboarded collection (SpecFlag):
\* the repository is onboarded again at another revision, queried, its content
\* collection purged and the embedding dimension migrated, one call at a time
\* ---------------------------------------------------------------------------
\* document ids for the content documents and three tree documents
MaxFlagDocId == Len(RaceTree) + 3

NextFlag ==
    \/ \E rev \in Revisions : LazyOnboardTree(2, RaceTree, rev, MaxFlagDocId)
    \/ \E d \in Dims, f \in SUBSET Range(RaceTree) : RetrieveLazyUpTo(d, 1, f, MaxFlagDocId)
    \/ Purge("default")
    \/ \E n \in Dims : Migrate(n)

SpecFlag == InitLazy /\ [][NextFlag]_vars

\* the content documents of a path with their chunks
ContentOf(docs, ch, path) ==
    {<<d, ChunksOfDoc(ch, d.id)>> :
        d \in {e \in docs : e.collection = "default" /\ e.s3_key = path}}

\* C29: no step takes the embedded flag of a row back, whatever the operation
\* (onboarding again with new blob hashes, purge of the content collection,
\* migration of the dimension, a query); and a retrieve_lazy call leaves the
\* content documents and chunks of every file that was marked before the call
\* as they were, also when the file has no chunks any more: it is not
\* embedded again.
C29_EmbeddedFlagMonotonic ==
    [][/\ \A r \in repoFiles :
             r.embedded => \E q \in repoFiles' : /\ q.collection = r.collection
                                                /\ q.file_path = r.file_path
                                                /\ q.embedded
       /\ IsOp("retrieve_lazy") =>
             \A p \in MarkedEmbedded :
                /\ ContentOf(documents', chunks', p) = ContentOf(documents, chunks, p)
                /\ p \notin Range(get_unembedded_files(repoFiles, "default", RaceTree))]_vars

\* C29 witness: a.md is marked embedded, its row has the blob hash of the
\* second revision, the content collection holds nothing of it, and a query
\* whose tree search returned it and whose fetch would succeed has just run
C29_Witness ==
    /\ ret.op = "retrieve_lazy"
    /\ ret.error = "none"
    /\ PathMd \in ret.fetched
    /\ PathMd \in TreeHits
    /\ PathMd \in MarkedEmbedded
    /\ \E r \in repoFiles : r.file_path = PathMd /\ r.embedded /\ r.file_sha = "r2"
    /\ ContentOf(documents, chunks, PathMd) = {}

\* ---------------------------------------------------------------------------
\* The chunker as a function (SpecChunk): chunk_text applied to every text of
\* up to MaxTextLen characters, normalised or not, for the chunk sizes and
\* overlaps of the model
\* ---------------------------------------------------------------------------
MaxTextLen == 6

MaxOverlap == 1

\* a letter, a space, a line break and a full stop: the characters the
\* break-point search and strip() distinguish
ChunkAlphabet == {"a", " ", "\n", "."}

ChunkTexts == UNION {[1..n -> ChunkAlphabet] : n \in 0..MaxTextLen}

InitChunk ==
    /\ backend = "sqlite"
    /\ dimension = NoDim
    /\ indexMeta = [c \in Collections |-> <<>>]
    /\ documents = {}
    /\ chunks = <<>>
    /\ nextDocId = 1
    /\ repoFiles = {}
    /\ fs = [p \in Range(WalkOrder) |-> Missing]
    /\ run = IdleRun
    /\ ret = [op |-> "none"]
    /\ query \in [op : {"chunk_text"}, text : ChunkTexts, chunk_size : ChunkSizes,
                  chunk_overlap : 0..MaxOverlap]
    /\ result = <<>>

\* chunk_text(text, chunk_size=..., chunk_overlap=...)
ChunkText ==
    /\ query.op = "chunk_text"
    /\ ret.op = "none"
    /\ result' = chunk_text(query.text, query.chunk_size, query.chunk_overlap, <<>>)
    /\ ret' = [op |-> "chunk_text"]
    /\ UNCHANGED <<backend, dimension, indexMeta, documents, chunks, nextDocId, repoFiles,
                   fs, run, query>>

NextChunk == ChunkText

SpecChunk == InitChunk /\ [][NextChunk]_vars

Chunked == query.op = "chunk_text" /\ ret.op = "chunk_text"

\* the number of the last line of the text
LastLine(text) == CountNewlines(text) + 1

\* C17: chunk_text returns the empty list for an empty or whitespace-only
\* text and, for any other text, a non-empty list whose chunk_index values
\* are 0, 1, 2, ... in list order.
C17_ChunkIndexes ==
    Chunked =>
        IF Strip(query.text) = <<>>
        THEN result = <<>>
        ELSE /\ result # <<>>
             /\ \A i \in 1..Len(result) : result[i].chunk_index = i - 1

\* a text with content whose first window is white space: no chunk at all
NoChunkForTextWithContent ==
    /\ Chunked
    /\ query.text = <<" ", " ", " ", " ", "a">>
    /\ query.chunk_size = 1
    /\ result = <<>>

\* what holds of C17 for every text: the empty list for a blank text, and
\* chunk_index 0, 1, 2, ... in list order; the list is not empty when the
\* text is normalised (it starts with a character that is not white space)
ChunkIndexesSequential ==
    Chunked =>
        /\ Strip(query.text) = <<>> => result = <<>>
        /\ \A i \in 1..Len(result) : result[i].chunk_index = i - 1
        /\ (query.text # <<>> /\ normalize_text(query.text) = query.text) => result # <<>>

\* C18: for every non-empty text, chunk size and overlap the chunks have
\* 1-based line ranges with line_start <= line_end, line_start and line_end
\* are non-decreasing along the list, the first chunk starts at line 1, the
\* last chunk ends at the last line of the text, and every line of the text
\* lies in the range of some chunk.
C18_LineRanges ==
    (Chunked /\ Strip(query.text) # <<>>) =>
        /\ result # <<>>
        /\ \A i \in 1..Len(result) : 1 <= result[i].line_start
                                      /\ result[i].line_start <= result[i].line_end
        /\ \A i \in 1..(Len(result) - 1) :
              /\ result[i].line_start <= result[i + 1].line_start
              /\ result[i].line_end <= result[i + 1].line_end
        /\ result[1].line_start = 1
        /\ result[Len(result)].line_end = LastLine(query.text)
        /\ \A l \in 1..LastLine(query.text) :
              \E i \in 1..Len(result) : result[i].line_start <= l /\ l <= result[i].line_end

\* a normalised text of two lines: the window after the first chunk is white
\* space, the loop stops, and line 2 with its content is in no chunk
LineLostAfterBlankWindow ==
    /\ Chunked
    /\ query.text = <<"a", " ", " ", " ", "\n", "a">>
    /\ query.chunk_size = 1
    /\ query.chunk_overlap = 1
    /\ Len(result) = 1
    /\ result[1].line_end = 1

\* what holds of C18 for every text: ranges are 1-based and ordered, start
\* and end are non-decreasing along the list, the first chunk starts at line 1
LineRangesOrdered ==
    Chunked =>
        /\ \A i \in 1..Len(result) : 1 <= result[i].line_start
                                      /\ result[i].line_start <= result[i].line_end
                                      /\ result[i].line_end <= LastLine(query.text)
        /\ \A i \in 1..(Len(result) - 1) :
              /\ result[i].line_start <= result[i + 1].line_start
              /\ result[i].line_end <= result[i + 1].line_end
        /\ result # <<>> => result[1].line_start = 1

\* ---------------------------------------------------------------------------
\* The loop of chunk_text, one iteration per step (SpecChunkLoop): the cursor,
\* the chunk index and the chunk list are the state, the window of the last
\* iteration is kept in ret
\* ---------------------------------------------------------------------------
InitChunkLoop ==
    /\ backend = "sqlite"
    /\ dimension = NoDim
    /\ indexMeta = [c \in Collections |-> <<>>]
    /\ documents = {}
    /\ chunks = <<>>
    /\ nextDocId = 1
    /\ repoFiles = {}
    /\ fs = [p \in Range(WalkOrder) |-> Missing]
    /\ run = IdleRun
    /\ ret = [op |-> "none"]
    /\ query = [op |-> "chunk_loop", text |-> <<>>, chunk_size |-> 1, chunk_overlap |-> 0,
                pc |-> "start", current_pos |-> 0, chunk_index |-> 0]
    /\ result = <<>>

\* the call with its arguments and the guard before the loop: a blank text
\* returns the empty list
ChunkEnterFrom(texts, sizes) ==
    /\ query.op = "chunk_loop"
    /\ query.pc = "start"
    /\ \E text \in texts, chunk_size \in sizes, chunk_overlap \in 0..MaxOverlap :
          query' = [query EXCEPT !.text = text, !.chunk_size = chunk_size,
                                 !.chunk_overlap = chunk_overlap,
                                 !.pc = IF Strip(text) = <<>> THEN "done" ELSE "loop"]
    /\ ret' = [op |-> "enter"]
    /\ UNCHANGED <<backend, dimension, indexMeta, documents, chunks, nextDocId, repoFiles,
                   fs, run, result>>

\* one pass through the while statement for the window [current_pos, end_pos)
\* with its stripped content: the test of the cursor and the body; gives the
\* locals, the chunk list and the window of the pass
LoopPass(q, chunk_list, end_pos, content) ==
    LET text == q.text
        pos == q.current_pos
        chunk == [content |-> content,
                  chunk_index |-> q.chunk_index,
                  line_start |-> CountNewlines(Slice(text, 0, pos)) + 1,
                  line_end |-> CountNewlines(Slice(text, 0, end_pos)) + 1,
                  token_count |-> estimate_tokens(content),
                  source_file |-> <<>>]
    IN IF pos >= Len(text)
       THEN [query |-> [q EXCEPT !.pc = "done"], result |-> chunk_list,
             ret |-> [op |-> "exit"]]
       ELSE IF content = <<>>
       THEN [query |-> [q EXCEPT !.pc = "done"], result |-> chunk_list,
             ret |-> [op |-> "iteration", pos |-> pos, end_pos |-> end_pos,
                      blank |-> TRUE]]
       ELSE [query |-> IF end_pos >= Len(text)
                       THEN [q EXCEPT !.chunk_index = @ + 1, !.pc = "done"]
                       ELSE [q EXCEPT !.chunk_index = @ + 1,
                                      !.current_pos =
                                          NextPos(pos, end_pos, q.chunk_overlap * 4)],
             result |-> Append(chunk_list, chunk),
             ret |-> [op |-> "iteration", pos |-> pos, end_pos |-> end_pos,
                      blank |-> FALSE]]

ChunkIteration ==
    /\ query.op = "chunk_loop"
    /\ query.pc = "loop"
    /\ \E end_pos \in {ChunkEnd(query.text, query.current_pos, query.chunk_size * 4)} :
       \E content \in {Strip(Slice(query.text, query.current_pos, end_pos))} :
       \E out \in {LoopPass(query, result, end_pos, content)} :
          /\ query' = out.query
          /\ result' = out.result
          /\ ret' = out.ret
    /\ UNCHANGED <<backend, dimension, indexMeta, documents, chunks, nextDocId, repoFiles,
                   fs, run>>

ChunkEnter == ChunkEnterFrom(ChunkTexts, ChunkSizes)

NextChunkLoop == ChunkEnter \/ ChunkIteration

SpecChunkLoop == InitChunkLoop /\ [][NextChunkLoop]_vars

\* the characters of a token in the estimate of the chunker
CharsPerToken == 4

\* two characters more than the window of the smallest chunk size: three
\* windows when the overlap is as large as the chunk size
LoopLen == CharsPerToken + 2

\* the texts of the loop under fairness
LoopTexts == UNION {[1..n -> ChunkAlphabet] : n \in 0..LoopLen}

\* the chunk size whose window is shorter than the longest text
SmallestChunkSize == CHOOSE n \in ChunkSizes : \A m \in ChunkSizes : n <= m

ChunkEnterLive == ChunkEnterFrom(LoopTexts, {SmallestChunkSize})

NextChunkLive == ChunkEnterLive \/ ChunkIteration

\* once in the loop the function keeps running: no iteration waits for
\* anything
SpecChunkLive == InitChunkLoop /\ [][NextChunkLive]_vars /\ WF_vars(ChunkIteration)

LoopDone == query.op = "chunk_loop" /\ query.pc = "done"

\* the stepwise loop returns what chunk_text returns
LoopComputesChunkText ==
    LoopDone => result = chunk_text(query.text, query.chunk_size, query.chunk_overlap, <<>>)

\* C25: chunk_text terminates for every text, chunk size and overlap, an
\* overlap equal to or larger than the chunk size included; every iteration
\* that is followed by another moves the cursor forward by at least one
\* character, the next window starts no later than the end of the one before
\* (no gap) and the two share at most chunk_overlap * 4 characters.
C25_TerminatesWithProgress ==
    /\ (query.pc = "loop") ~> LoopDone
    /\ [][(ret'.op = "iteration" /\ query.pc = "loop" /\ query'.pc = "loop") =>
             /\ query'.current_pos >= query.current_pos + 1
             /\ query'.current_pos <= ret'.end_pos
             /\ ret'.end_pos - query'.current_pos <= query.chunk_overlap * 4
             /\ query'.current_pos < Len(query.text)]_vars

\* C25 witness: an overlap as large as the chunk size, three windows one
\* character apart, and the loop has returned three chunks
C25_Witness ==
    /\ LoopDone
    /\ query.chunk_overlap >= query.chunk_size
    /\ query.current_pos = 2
    /\ ret.op = "iteration"
    /\ ret.pos = 2
    /\ Len(result) = 3

\* C26 (as stated): a window whose content is empty after trimming yields no
\* chunk and does not consume a chunk index, and the text behind it that is
\* not blank is still chunked: the loop does not return while text with
\* content lies behind the window.
C26_BlankWindowSkipped ==
    /\ [][(ret'.op = "iteration" /\ ret'.blank) =>
             /\ result' = result
             /\ query'.chunk_index = query.chunk_index]_vars
    /\ []((LoopDone /\ ret.op = "iteration") =>
             Strip(Slice(query.text, ret.end_pos, Len(query.text))) = <<>>)

\* the failing case of C26: the second window of a normalised text is white
\* space, the loop returns, and the content of line 2 is in no chunk
TextBehindBlankWindowDropped ==
    /\ LoopDone
    /\ query.text = <<"a", " ", " ", " ", "\n", "a">>
    /\ query.chunk_size = 1
    /\ query.chunk_overlap = 1
    /\ ret.op = "iteration"
    /\ ret.blank
    /\ Len(result) = 1
    /\ Strip(Slice(query.text, ret.end_pos, Len(query.text))) # <<>>

\* what holds of C26: a blank window yields no chunk, consumes no chunk index
\* and ends the loop
BlankWindowEndsLoop ==
    [][(ret'.op = "iteration" /\ ret'.blank) =>
          /\ result' = result
          /\ query'.chunk_index = query.chunk_index
          /\ query'.pc = "done"]_vars

\* ---------------------------------------------------------------------------
\* The index version as a function (SpecVersion): build_index_version applied
\* to two metadata dicts, each given as its items in insertion order
\* ---------------------------------------------------------------------------
\* dict(items): the last value of a key wins, the order of the items is lost
DictOf(items) ==
    [k \in {items[i][1] : i \in 1..Len(items)} |->
        items[CHOOSE i \in 1..Len(items) :
                 items[i][1] = k /\ \A j \in (i + 1)..Len(items) : items[j][1] # k][2]]

Reverse(s) == [i \in 1..Len(s) |-> s[Len(s) + 1 - i]]

\* the metadata of _build_index_metadata, with the keys the store adds
\* (collection, created_at); repo_commit is absent in some
MetadataItems ==
    {c \o <<<<"embedding_provider", p>>, <<"embedding_model", m>>, <<"chunk_size", cs>>,
            <<"chunk_overlap", ov>>, <<"collection", cl>>, <<"created_at", t>>>> :
        c \in {<<>>, <<<<"repo_commit", "">>>>, <<<<"repo_commit", "abc123">>>>},
        p \in {"openai", "local"}, m \in {"m1", "m2"}, cs \in ChunkSizes,
        ov \in 0..MaxOverlap, cl \in Collections, t \in {"t1"}}

\* the same dicts with their keys inserted in either order
MetadataDicts == MetadataItems \cup {Reverse(items) : items \in MetadataItems}

InitVersion ==
    /\ backend = "sqlite"
    /\ dimension = NoDim
    /\ indexMeta = [c \in Collections |-> <<>>]
    /\ documents = {}
    /\ chunks = <<>>
    /\ nextDocId = 1
    /\ repoFiles = {}
    /\ fs = [p \in Range(WalkOrder) |-> Missing]
    /\ run = IdleRun
    /\ ret = [op |-> "none"]
    /\ query \in [op : {"build_index_version"}, a : MetadataDicts, b : MetadataDicts]
    /\ result = <<>>

\* build_index_version(a), build_index_version(b)
BuildVersions ==
    /\ query.op = "build_index_version"
    /\ ret.op = "none"
    /\ result' = <<build_index_version(DictOf(query.a)),
                   build_index_version(DictOf(query.b))>>
    /\ ret' = [op |-> "build_index_version"]
    /\ UNCHANGED <<backend, dimension, indexMeta, documents, chunks, nextDocId, repoFiles,
                   fs, run, query>>

NextVersion == BuildVersions

SpecVersion == InitVersion /\ [][NextVersion]_vars

VersionKeys ==
    {"repo_commit", "embedding_provider", "embedding_model", "chunk_size", "chunk_overlap"}

\* the two dicts agree on the five fields, a missing field read as ""
FieldsAgree(a, b) == \A k \in VersionKeys : MetaGet(DictOf(a), k) = MetaGet(DictOf(b), k)

\* C19: build_index_version is a function of exactly the five fields
\* repo_commit, embedding_provider, embedding_model, chunk_size and
\* chunk_overlap: two metadata records get the same version if and only if
\* they agree on the five fields; the collection, created_at and the order
\* of the keys do not affect it.
C19_VersionOfFiveFields ==
    (query.op = "build_index_version" /\ ret.op = "build_index_version") =>
        /\ result[1] = result[2] <=> FieldsAgree(query.a, query.b)
        /\ result[1] = build_index_version(DictOf(Reverse(query.a)))
        /\ \A k \in {"collection", "created_at"}, v \in Collections :
              build_index_version([x \in DOMAIN DictOf(query.a) |->
                                      IF x = k THEN v ELSE DictOf(query.a)[x]]) = result[1]

\* C19 witness: two records that differ in the collection and in the order
\* of their keys only have the same version
C19_Witness ==
    /\ query.op = "build_index_version"
    /\ ret.op = "build_index_version"
    /\ DictOf(query.a)["collection"] # DictOf(query.b)["collection"]
    /\ query.a[1][1] # query.b[1][1]
    /\ FieldsAgree(query.a, query.b)
    /\ result[1] = result[2]

\* two records that differ in chunk_overlap only have different versions
VersionChangesWithOverlap ==
    /\ query.op = "build_index_version"
    /\ ret.op = "build_index_version"
    /\ \A k \in DOMAIN DictOf(query.a) \ {"chunk_overlap"} :
          k \in DOMAIN DictOf(query.b) /\ DictOf(query.a)[k] = DictOf(query.b)[k]
    /\ DictOf(query.a)["chunk_overlap"] # DictOf(query.b)["chunk_overlap"]
    /\ result[1] # result[2]

\* a record without repo_commit and one with the empty repo_commit have the
\* same version
MissingFieldReadAsEmpty ==
    /\ query.op = "build_index_version"
    /\ ret.op = "build_index_version"
    /\ "repo_commit" \notin DOMAIN DictOf(query.a)
    /\ "repo_commit" \in DOMAIN DictOf(query.b)
    /\ result[1] = result[2]

\* ---------------------------------------------------------------------------
\* Ingestion with a store call that fails (SpecAtomic): the runs of Spec, and
\* upsert_chunks may raise after upsert_document has committed
\* ---------------------------------------------------------------------------
NextAtomic ==
    \/ Next
    \/ IngestFileStoreFails

SpecAtomic == Init /\ [][NextAtomic]_vars

\* the chunk size a stored index version was built with
VersionChunkSizes(index_version) == {cs \in ChunkSizes : VersionOf(cs) = index_version}

ChunkShape(c) ==
    [chunk_index |-> c.chunk_index, content |-> c.content,
     line_start |-> c.line_start, line_end |-> c.line_end]

\* the chunks of the document are the chunks chunk_text makes of its text
\* under the chunk size of its index version
OwnsCompleteChunkSet(d) ==
    \A cs \in VersionChunkSizes(d.index_version) :
        \E stored \in {ChunksOfDoc(chunks, d.id)},
           made \in {chunk_text(d.sha256[2], cs, ChunkOverlap, d.s3_key)} :
            /\ Len(stored) = Len(made)
            /\ \A i \in 1..Len(made) : ChunkShape(stored[i]) = ChunkShape(made[i])

\* C20: a document is never left partially written: at every point, also
\* after the ingest of a file failed between upsert_document and
\* upsert_chunks, a stored document whose hash and index version later runs
\* match (and skip) owns the complete chunk set produced under that index
\* version, never zero chunks and never the chunks of an older version.
C20_NoPartialDocument == \A d \in documents : OwnsCompleteChunkSet(d)

\* upsert_chunks raised in the run of chunk size 2: the document carries the
\* new index version with the chunks of chunk size 1, and the next run skips it
StaleChunksSkipped ==
    /\ run.pc = "done"
    /\ run.stats.skipped_docs = 1
    /\ run.stats.errors = <<>>
    /\ \E d \in documents :
          /\ d.index_version = run.index_version
          /\ d.index_version = VersionOf(2)
          /\ ChunksOfDoc(chunks, d.id) # <<>>
          /\ ~OwnsCompleteChunkSet(d)

\* upsert_chunks raised for a new document: it is stored without chunks and
\* the next run skips it
NoChunksSkipped ==
    /\ run.pc = "done"
    /\ run.stats.skipped_docs = 1
    /\ run.stats.errors = <<>>
    /\ \E d \in documents :
          /\ d.index_version = run.index_version
          /\ ChunksOfDoc(chunks, d.id) = <<>>

\* ---------------------------------------------------------------------------
\* Two ingestion runs that index the same file of the same collection at the
\* same time (specification SpecWriters).  Every run has its own connection
\* (get_connection, autocommit off); a step is one SQL statement or one
\* commit.  query.procs[p] is the position of run p inside _ingest_file with
\* the rows its open transaction deleted.
\* ---------------------------------------------------------------------------

IdleWriter(chunk_size) ==
    [pc |-> "check", chunk_size |-> chunk_size, doc_id |-> NoId,
     snapshot |-> {}, deleted |-> {}]

\* the store before the two runs: empty, or the file indexed by an earlier
\* run of chunk size 1
StoredBefore ==
    {[documents |-> {}, chunks |-> <<>>, nextDocId |-> 1],
     With(ingest_file({}, <<>>, 1, EmptyStats, TextA, PathMd, "default", VersionOf(1), 1, 2, TRUE),
          LAMBDA s : [documents |-> s.documents, chunks |-> s.chunks,
                      nextDocId |-> s.nextDocId])}

InitWriters ==
    /\ backend \in {"sqlite", "postgres"}
    /\ dimension = 2
    /\ indexMeta = [c \in Collections |-> <<>>]
    /\ \E s \in StoredBefore :
          /\ documents = s.documents
          /\ chunks = s.chunks
          /\ nextDocId = s.nextDocId
    /\ repoFiles = {}
    /\ fs = [p \in Range(WalkOrder) |-> IF p = PathMd THEN TextA ELSE Missing]
    /\ run = IdleRun
    /\ ret = [op |-> "none"]
    /\ query \in {[op |-> "writers", procs |-> w] : w \in [Procs -> {IdleWriter(cs) : cs \in ChunkSizes}]}
    /\ result = <<>>

\* the rows upsert_chunks of a run of this chunk size inserts for the document
RowsOfRun(document_id, chunk_size) ==
    With(ingest_file({}, <<>>, document_id, EmptyStats, TextA, PathMd, "default",
                     VersionOf(chunk_size), chunk_size, 2, TRUE).chunks,
         LAMBDA rows : [i \in 1..Len(rows) |-> [rows[i] EXCEPT !.document_id = document_id]])

\* the run holds the write lock of the SQLite file (an open write transaction)
HoldsWriteLock(w) == w.pc \in {"deleting", "commit"}

\* the run's open transaction holds the row locks of the rows it deleted
HoldsRowLock(w, rows) == w.pc = "commit" /\ w.deleted \cap rows # {}

WriterStep(p, w, step) ==
    /\ query' = [query EXCEPT !.procs[p] = w]
    /\ ret' = [op |-> "writer", proc |-> p, step |-> step]
    /\ UNCHANGED <<backend, dimension, indexMeta, repoFiles, fs, run, result>>

\* the skip decision of _ingest_file (document_exists_for_index)
WriterCheck(p) ==
    /\ query.op = "writers"
    /\ query.procs[p].pc = "check"
    /\ WriterStep(p, [query.procs[p] EXCEPT !.pc =
                         IF IsUnchanged(documents, ShaA, "default",
                                        VersionOf(query.procs[p].chunk_size))
                         THEN "skipped" ELSE "doc"], "check")
    /\ UNCHANGED <<documents, chunks, nextDocId>>

\* upsert_document: INSERT ... ON CONFLICT (sha256, collection) DO UPDATE and
\* its commit
WriterDocument(p) ==
    /\ query.op = "writers"
    /\ query.procs[p].pc = "doc"
    /\ backend = "sqlite" => \A q \in Procs \ {p} : ~HoldsWriteLock(query.procs[q])
    /\ \E up \in {upsert_document(documents, nextDocId, PathMd, ShaA, "default",
                                  VersionOf(query.procs[p].chunk_size))} :
          /\ documents' = up.documents
          /\ nextDocId' = up.nextDocId
          /\ WriterStep(p, [query.procs[p] EXCEPT !.pc = "delete", !.doc_id = up.id],
                        "upsert_document")
    /\ UNCHANGED chunks

\* upsert_chunks, DELETE FROM chunks WHERE document_id = ?: the statement
\* starts the transaction of the connection and sees the committed rows.
\* SQLite takes the write lock of the file here.
WriterDeleteBegin(p) ==
    /\ query.op = "writers"
    /\ query.procs[p].pc = "delete"
    /\ backend = "sqlite" => \A q \in Procs \ {p} : ~HoldsWriteLock(query.procs[q])
    /\ WriterStep(p, [query.procs[p] EXCEPT !.pc = "deleting",
                         !.snapshot = Range(ChunksOfDoc(chunks, query.procs[p].doc_id))],
                  "delete_begin")
    /\ UNCHANGED <<documents, chunks, nextDocId>>

\* the DELETE waits for the row locks of another open transaction and then
\* deletes the rows of its snapshot that are still stored; rows committed
\* after the statement started are not seen (READ COMMITTED)
WriterDeleteEnd(p) ==
    /\ query.op = "writers"
    /\ query.procs[p].pc = "deleting"
    /\ \A q \in Procs \ {p} : ~HoldsRowLock(query.procs[q], query.procs[p].snapshot)
    /\ WriterStep(p, [query.procs[p] EXCEPT !.pc = "commit",
                         !.deleted = query.procs[p].snapshot \cap Range(chunks)],
                  "delete_end")
    /\ UNCHANGED <<documents, chunks, nextDocId>>

\* the INSERTs of upsert_chunks and conn.commit(): the deleted rows go and
\* the inserted rows become visible
WriterCommit(p) ==
    /\ query.op = "writers"
    /\ query.procs[p].pc = "commit"
    /\ chunks' = SelectSeq(chunks, LAMBDA r : r \notin query.procs[p].deleted)
                    \o RowsOfRun(query.procs[p].doc_id, query.procs[p].chunk_size)
    /\ WriterStep(p, [query.procs[p] EXCEPT !.pc = "done", !.snapshot = {}, !.deleted = {}],
                  "commit")
    /\ UNCHANGED <<documents, nextDocId>>

\* SQLite: the busy timeout ends while the other run holds the write lock;
\* the statement raises "database is locked" and the run records the error
WriterLocked(p) ==
    /\ query.op = "writers"
    /\ backend = "sqlite"
    /\ query.procs[p].pc \in {"doc", "delete"}
    /\ \E q \in Procs \ {p} : HoldsWriteLock(query.procs[q])
    /\ WriterStep(p, [query.procs[p] EXCEPT !.pc = "failed"], "locked")
    /\ UNCHANGED <<documents, chunks, nextDocId>>

NextWriters ==
    \E p \in Procs :
        \/ WriterCheck(p)
        \/ WriterDocument(p)
        \/ WriterDeleteBegin(p)
        \/ WriterDeleteEnd(p)
        \/ WriterCommit(p)
        \/ WriterLocked(p)

SpecWriters == InitWriters /\ [][NextWriters]_vars

BothRunsWrote == query.op = "writers" /\ \A p \in Procs : query.procs[p].pc = "done"

\* the documents stored for the content of the file in the collection
DocsOfFile == {d \in documents : d.sha256 = ShaA /\ d.collection = "default"}

\* the chunks of the document are the rows one of the two runs wrote
ChunksOfOneRun(d) ==
    \E p \in Procs : ChunksOfDoc(chunks, d.id) = RowsOfRun(d.id, query.procs[p].chunk_size)

\* C21: when two runs reindex the same document concurrently, after both
\* have finished there is exactly one document for the (hash, collection)
\* pair and its chunks are exactly the chunk set written by one of the two
\* runs, never a mixture or union of the two.
C21_LastWriterWins ==
    BothRunsWrote =>
        /\ Cardinality(DocsOfFile) = 1
        /\ \A d \in DocsOfFile : ChunksOfOneRun(d)

\* both runs finished and the document holds the rows of both: the DELETE of
\* each ran before the rows of the other were committed
ChunksOfBothRuns ==
    /\ BothRunsWrote
    /\ backend = "postgres"
    /\ query.procs[1].chunk_size # query.procs[2].chunk_size
    /\ \E d \in DocsOfFile :
          Len(ChunksOfDoc(chunks, d.id)) =
              Len(RowsOfRun(d.id, 1)) + Len(RowsOfRun(d.id, 2))

\* one document per (hash, collection) pair at every point of the two runs
OneDocumentPerContent == Cardinality(DocsOfFile) <= 1

\* SQLite admits one writer at a time: the last writer wins
SqliteLastWriterWins ==
    (backend = "sqlite" /\ BothRunsWrote) => \A d \in DocsOfFile : ChunksOfOneRun(d)

\* ---------------------------------------------------------------------------
\* The storage connections of a run or query (specification SpecConn).  A
\* step is one call inside ingest_local_directory, retrieve, retrieve_lazy or
\* embed_files_on_demand; every call that can raise has a raising outcome.
\* result.open counts the connections that are open, result.held the open
\* connections get_connection has returned to its caller.
\* ---------------------------------------------------------------------------

\* the calls one process makes
MaxCalls == 2

\* the files of a run, or the tree hits of a query that are not embedded yet
MaxConnFiles == 2

ConnFunctions == {"ingest_local_directory", "retrieve", "retrieve_lazy", "embed_files_on_demand"}

\* the try block a function enters first
FirstPart(fn) ==
    CASE fn = "ingest_local_directory" -> "ingest"
      [] fn = "retrieve" -> "retrieve"
      [] fn = "retrieve_lazy" -> "stage1"
      [] fn = "embed_files_on_demand" -> "embed"

\* the calls inside each try block, in order
BodyOf(part) ==
    CASE part = "ingest" -> <<"validate", "metadata", "files">>
      [] part = "retrieve" -> <<"validate", "embed_query", "search">>
      [] part = "stage1" -> <<"validate", "embed_query", "search">>
      [] part = "embed" -> <<"meta", "unembedded", "fetch", "files", "mark">>
      [] part = "stage3" -> <<"search">>

IdleConn(left) ==
    [op |-> "conn", fn |-> "none", part |-> "none", pc |-> "idle", at |-> 0,
     pending |-> "none", files_left |-> 0, left |-> left]

InitConn ==
    /\ backend \in {"sqlite", "postgres"}
    /\ dimension = 2
    /\ indexMeta = [c \in Collections |-> <<>>]
    /\ documents = {}
    /\ chunks = <<>>
    /\ nextDocId = 1
    /\ repoFiles = {}
    /\ fs = [p \in Range(WalkOrder) |-> Missing]
    /\ run = IdleRun
    /\ ret = [op |-> "none", exit |-> "none"]
    /\ query = IdleConn(MaxCalls)
    /\ result = [open |-> 0, held |-> 0]

ConnUnchanged == UNCHANGED <<backend, dimension, indexMeta, documents, chunks, nextDocId, repoFiles, fs, run>>

\* finally: conn.close()
LeaveTry(n, raised) == n - 1

\* the function returns or raises to its caller
ConnExit(kind) ==
    /\ query' = IdleConn(query.left)
    /\ ret' = [op |-> query.fn, exit |-> kind]

\* the call of a function; ingest_local_directory returns before
\* get_connection when no file is eligible
ConnCall(fn, files) ==
    /\ query.op = "conn"
    /\ query.pc = "idle"
    /\ query.left > 0
    /\ IF fn = "ingest_local_directory" /\ files = 0
       THEN /\ query' = IdleConn(query.left - 1)
            /\ ret' = [op |-> fn, exit |-> "return"]
       ELSE /\ query' = [IdleConn(query.left - 1) EXCEPT !.fn = fn, !.part = FirstPart(fn),
                                                       !.pc = "connect",
                                                       !.files_left = files]
            /\ ret' = [op |-> fn, exit |-> "none"]
    /\ UNCHANGED result
    /\ ConnUnchanged

\* get_connection, first statement: psycopg.connect / sqlite3.connect
ConnConnect(ok) ==
    /\ query.op = "conn"
    /\ query.pc = "connect"
    /\ IF ok
       THEN /\ query' = [query EXCEPT !.pc = "prepare"]
            /\ result' = [result EXCEPT !.open = @ + 1]
            /\ UNCHANGED ret
       ELSE /\ ConnExit("raise")
            /\ UNCHANGED result
    /\ ConnUnchanged

\* get_connection, second statement: register_vector(conn) on Postgres,
\* _ensure_sqlite_schema(conn) on SQLite; when it raises the connection is
\* not returned and get_connection has no handler that closes it
ConnPrepare(ok) ==
    /\ query.op = "conn"
    /\ query.pc = "prepare"
    /\ IF ok
       THEN /\ query' = [query EXCEPT !.pc = "try", !.at = 1]
            /\ result' = [result EXCEPT !.held = @ + 1]
            /\ UNCHANGED ret
       ELSE /\ ConnExit("raise")
            /\ UNCHANGED result
    /\ ConnUnchanged

\* the outcomes of the call at a position of a try block: "ok", "raise", and
\* "none" for a call whose result makes the function return 0 (no repo
\* metadata, no unembedded file) or skip a file (no content fetched)
ConnOutcomes(part, call) ==
    CASE part = "ingest" /\ call = "files" -> {"ok", "caught"}
      [] part = "embed" /\ call \in {"meta", "unembedded", "files"} -> {"ok", "raise", "none"}
      [] OTHER -> {"ok", "raise"}

\* the position after the call: the loops stay until their last file
ConnAfter(q, call, outcome) ==
    IF outcome = "raise" THEN [q EXCEPT !.pc = "finally", !.pending = "raise"]
    ELSE IF q.part = "embed" /\ call \in {"meta", "unembedded"} /\ outcome = "none"
    THEN [q EXCEPT !.pc = "finally", !.pending = "return"]
    ELSE IF call = "files" /\ q.files_left > 1
    THEN [q EXCEPT !.files_left = @ - 1]
    ELSE IF q.at = Len(BodyOf(q.part))
    THEN [q EXCEPT !.pc = "finally", !.pending = "return", !.files_left = 0]
    ELSE [q EXCEPT !.at = @ + 1]

\* one call of the try body
ConnTry(outcome) ==
    /\ query.op = "conn"
    /\ query.pc = "try"
    /\ outcome \in ConnOutcomes(query.part, BodyOf(query.part)[query.at])
    /\ query' = ConnAfter(query, BodyOf(query.part)[query.at], outcome)
    /\ UNCHANGED <<ret, result>>
    /\ ConnUnchanged

\* the finally clause of the try block and what follows it: the exception
\* goes on to the caller (no function catches it), the function returns, or
\* retrieve_lazy goes on to its next stage
ConnFinally ==
    /\ query.op = "conn"
    /\ query.pc = "finally"
    /\ result' = [open |-> LeaveTry(result.open, query.pending = "raise"),
                  held |-> LeaveTry(result.held, query.pending = "raise")]
    /\ IF query.pending = "raise"
       THEN ConnExit("raise")
       ELSE IF query.part = "stage1"
       THEN /\ query' = [query EXCEPT !.pc = "dispatch", !.pending = "none", !.at = 0]
            /\ UNCHANGED ret
       ELSE IF query.part = "embed" /\ query.fn = "retrieve_lazy"
       THEN /\ query' = [query EXCEPT !.part = "stage3", !.pc = "connect",
                                      !.pending = "none", !.at = 0]
            /\ UNCHANGED ret
       ELSE ConnExit("return")
    /\ ConnUnchanged

\* retrieve_lazy behind stage 1: without tree results it calls retrieve,
\* otherwise embed_files_on_demand with the paths of the tree results
ConnDispatch(files) ==
    /\ query.op = "conn"
    /\ query.pc = "dispatch"
    /\ query' = [query EXCEPT !.part = IF files = 0 THEN "retrieve" ELSE "embed",
                              !.pc = "connect", !.files_left = files]
    /\ UNCHANGED <<ret, result>>
    /\ ConnUnchanged

NextConn ==
    \/ \E fn \in ConnFunctions, files \in 0..MaxConnFiles : ConnCall(fn, files)
    \/ \E ok \in BOOLEAN : ConnConnect(ok)
    \/ \E ok \in BOOLEAN : ConnPrepare(ok)
    \/ \E outcome \in {"ok", "raise", "none", "caught"} : ConnTry(outcome)
    \/ ConnFinally
    \/ \E files \in 0..MaxConnFiles : ConnDispatch(files)

SpecConn == InitConn /\ [][NextConn]_vars

\* C27: every storage connection opened by an ingestion run or a query is
\* closed on every exit path (normal completion, a fatal dimension mismatch,
\* an exception from the embedding provider, the upstream fetch or the
\* store), and a run or query never holds more than one open connection at a
\* time.
C27_ConnectionsClosed ==
    /\ result.open <= 1
    /\ query.pc = "idle" => result.open = 0

\* the call raised out of get_connection behind the connect: the connection
\* is open and nothing refers to it any more
ConnectionLeftOpen ==
    /\ query.pc = "idle"
    /\ ret.exit = "raise"
    /\ result.open = 1
    /\ result.held = 0

\* a connection get_connection returned is closed on every exit path, and a
\* run or query has at most one of them at a time: between get_connection and
\* the end of the finally clause
ReturnedConnectionsClosed ==
    /\ result.held <= 1
    /\ result.held = 1 <=> query.pc \in {"try", "finally"}

\* ---------------------------------------------------------------------------
\* The repo onboarding job of one job id and the worker invocations that run
\* it (specification SpecJob).  query.job is the row of repo_onboarding_jobs
\* (NoJob before the handler created it), query.procs[p] the position of
\* worker invocation p inside _run_repo_onboard_job.  A step is one SQL
\* statement with its commit, or the onboarding itself.  result counts the
\* executions of the onboarding.
\* ---------------------------------------------------------------------------

NoJob == [status |-> "none", payload |-> "none"]

\* the stored request_payload: the dict the handler wrote, or a value that
\* is not a dict
JobPayloads == {"dict", "invalid"}

\* the invocations of one worker for the job id
MaxInvocations == 2

IdleWorker(left) == [pc |-> "idle", seen |-> "none", outcome |-> "none", left |-> left]

InitJob ==
    /\ backend \in {"sqlite", "postgres"}
    /\ dimension = 2
    /\ indexMeta = [c \in Collections |-> <<>>]
    /\ documents = {}
    /\ chunks = <<>>
    /\ nextDocId = 1
    /\ repoFiles = {}
    /\ fs = [p \in Range(WalkOrder) |-> Missing]
    /\ run = IdleRun
    /\ ret = [op |-> "none"]
    /\ query = [op |-> "job", job |-> NoJob,
                procs |-> [p \in Procs |-> IdleWorker(MaxInvocations)]]
    /\ result = [executions |-> 0, succeeded |-> FALSE, after_success |-> 0]

JobUnchanged == UNCHANGED <<backend, dimension, indexMeta, documents, chunks, nextDocId, repoFiles, fs, run>>

\* UPDATE repo_onboarding_jobs SET status = 'running' ... WHERE job_id = ?
mark_repo_onboarding_job_running(job) == [job EXCEPT !.status = "running"]

mark_repo_onboarding_job_succeeded(job) == [job EXCEPT !.status = "succeeded"]

mark_repo_onboarding_job_failed(job) == [job EXCEPT !.status = "failed"]

\* _handle_repo_onboard, async request: create_repo_onboarding_job inserts
\* the queued row (job_id is the primary key) and the job is dispatched
JobCreate(payload) ==
    /\ query.op = "job"
    /\ query.job = NoJob
    /\ query' = [query EXCEPT !.job = [status |-> "queued", payload |-> payload]]
    /\ ret' = [op |-> "_handle_repo_onboard", status |-> "queued"]
    /\ UNCHANGED result
    /\ JobUnchanged

\* the worker Lambda is invoked with the job id
JobInvoke(p) ==
    /\ query.op = "job"
    /\ query.procs[p].pc = "idle"
    /\ query.procs[p].left > 0
    /\ query' = [query EXCEPT !.procs[p] = [IdleWorker(@.left - 1) EXCEPT !.pc = "read"]]
    /\ ret' = [op |-> "invoke", proc |-> p]
    /\ UNCHANGED result
    /\ JobUnchanged

JobReturn(q, p, status) ==
    /\ query' = [q EXCEPT !.procs[p] = IdleWorker(@.left)]
    /\ ret' = [op |-> "_run_repo_onboard_job", proc |-> p, status |-> status]

\* get_repo_onboarding_job and the tests of the status it returned
JobRead(p) ==
    /\ query.op = "job"
    /\ query.procs[p].pc = "read"
    /\ IF query.job = NoJob THEN JobReturn(query, p, "failed")
       ELSE IF query.job.status = "succeeded" THEN JobReturn(query, p, "succeeded")
       ELSE IF query.job.status = "running" THEN JobReturn(query, p, "running")
       ELSE /\ query' = [query EXCEPT !.procs[p].pc = "mark",
                                      !.procs[p].seen = query.job.status]
            /\ ret' = [op |-> "read", proc |-> p]
    /\ UNCHANGED result
    /\ JobUnchanged

\* mark_repo_onboarding_job_running, then the test of the payload read before
JobMark(p) ==
    /\ query.op = "job"
    /\ query.procs[p].pc = "mark"
    /\ \E job \in {mark_repo_onboarding_job_running(query.job)} :
          query' = [query EXCEPT !.job = job,
                                 !.procs[p].pc = IF query.job.payload = "dict"
                                                 THEN "execute" ELSE "finish",
                                 !.procs[p].outcome = IF query.job.payload = "dict"
                                                      THEN "none" ELSE "failed"]
    /\ ret' = [op |-> "mark_running", proc |-> p]
    /\ UNCHANGED result
    /\ JobUnchanged

\* _execute_repo_onboard returns or raises
JobExecute(p, ok) ==
    /\ query.op = "job"
    /\ query.procs[p].pc = "execute"
    /\ query' = [query EXCEPT !.procs[p].pc = "finish",
                              !.procs[p].outcome = IF ok THEN "succeeded" ELSE "failed"]
    /\ result' = [result EXCEPT !.executions = @ + 1,
                                !.after_success = IF result.succeeded THEN @ + 1 ELSE @]
    /\ ret' = [op |-> "_execute_repo_onboard", proc |-> p]
    /\ JobUnchanged

\* mark_repo_onboarding_job_succeeded / mark_repo_onboarding_job_failed and
\* the return of the worker
JobFinish(p) ==
    /\ query.op = "job"
    /\ query.procs[p].pc = "finish"
    /\ \E job \in {IF query.procs[p].outcome = "succeeded"
                   THEN mark_repo_onboarding_job_succeeded(query.job)
                   ELSE mark_repo_onboarding_job_failed(query.job)} :
          JobReturn([query EXCEPT !.job = job], p, query.procs[p].outcome)
    /\ result' = [result EXCEPT !.succeeded = @ \/ query.procs[p].outcome = "succeeded"]
    /\ JobUnchanged

NextJob ==
    \/ \E payload \in JobPayloads : JobCreate(payload)
    \/ \E p \in Procs :
          \/ JobInvoke(p)
          \/ JobRead(p)
          \/ JobMark(p)
          \/ \E ok \in BOOLEAN : JobExecute(p, ok)
          \/ JobFinish(p)

SpecJob == InitJob /\ [][NextJob]_vars

\* the workers that are between mark_repo_onboarding_job_running and the
\* write of their outcome
Executing == {p \in Procs : query.procs[p].pc \in {"execute", "finish"}}

\* the moves of the stored status the claim allows
AllowedStatusMove(from, to) ==
    \/ from = "none" /\ to = "queued"
    \/ from \in {"queued", "failed"} /\ to = "running"
    \/ from = "running" /\ to \in {"succeeded", "failed"}

\* C30: a repo onboarding job is executed by at most one worker invocation
\* at a time and never again after it succeeded, and its status moves only
\* along queued/failed -> running -> succeeded or failed, also when two
\* worker invocations for the same job id interleave.
C30_OneWorkerPerJob ==
    /\ [](Cardinality(Executing) <= 1 /\ result.after_success = 0)
    /\ [][query'.job.status # query.job.status =>
             AllowedStatusMove(query.job.status, query'.job.status)]_vars

\* two invocations read the queued job before either marked it running: both
\* execute the onboarding
TwoWorkersExecute == Cardinality(Executing) = 2

\* the onboarding ran again after the job had succeeded, and the stored
\* status went back from succeeded
ExecutedAgainAfterSuccess ==
    /\ result.after_success > 0
    /\ result.succeeded
    /\ query.job.status \in {"running", "failed"}

\* invocations that do not overlap (specification SpecJobSerial): a worker
\* is invoked when no other is inside _run_repo_onboard_job
NoWorkerInFlight(p) == \A q \in Procs \ {p} : query.procs[q].pc = "idle"

NextJobSerial ==
    \/ \E payload \in JobPayloads : JobCreate(payload)
    \/ \E p \in Procs :
          \/ NoWorkerInFlight(p) /\ JobInvoke(p)
          \/ JobRead(p)
          \/ JobMark(p)
          \/ \E ok \in BOOLEAN : JobExecute(p, ok)
          \/ JobFinish(p)

SpecJobSerial == InitJob /\ [][NextJobSerial]_vars

\* one invocation after the other: a job is executed only from queued or
\* failed, never after it succeeded, and its status moves along the allowed
\* path
SerialWorkersKeepOrder ==
    /\ [](Cardinality(Executing) <= 1 /\ result.after_success = 0)
    /\ [][query'.job.status # query.job.status =>
             AllowedStatusMove(query.job.status, query'.job.status)]_vars
    /\ [][\A p \in Procs :
             (query.procs[p].pc = "read" /\ query'.procs[p].pc = "mark")
                 => query.job.status \in {"queued", "failed"}]_vars
====
